---------------------------- MODULE Spec2Model ----------------------------
(***************************************************************************)
(* Campersion: the approval workflow over users, camps, events, camp       *)
(* memberships and camp-event associations, as implemented by the JSON API *)
(* handlers (src/app/api) and the server-rendered handlers (src/app/camps, *)
(* src/app/events).  The database tables are the state; every request      *)
(* handler is an operator that maps the tables and the request to an HTTP  *)
(* status code and the new tables, and an action that applies it.          *)
(***************************************************************************)
EXTENDS Integers, Sequences, FiniteSets, TLC

VARIABLES
    users,          \* users table: id -> [role, is_active, email, email_verified,
                    \* password_hash]
    camps,          \* camps table: id -> [creator_id, member_approval_mode]
    camp_members,   \* camp_members rows, grouped by <<camp_id, user_id>>, oldest first
    events,         \* events table: id -> [creator_id, status]
    associations,   \* camp_event_associations rows, grouped by <<camp_id, event_id>>
    inflight,       \* requests that passed their existence check and have not committed
    last,           \* the request handled last and the status code it returned
    oauth_providers,\* oauth_providers rows [provider_name, provider_user_id, user_id]
    user_id_seq     \* the next value of the users.id sequence

vars == <<users, camps, camp_members, events, associations, inflight, last,
         oauth_providers, user_id_seq>>

-----------------------------------------------------------------------------
(* Bounds of the model *)

MaxUsers == 3
MaxCamps == 1
MaxEvents == 1
MaxInflight == 2

UserIds == 1..MaxUsers
CampIds == 1..MaxCamps
EventIds == 1..MaxEvents

-----------------------------------------------------------------------------
(* Enumerations of src/app/models.py *)

UserRole == {"global admin", "site admin", "event manager", "camp manager", "member"}

get_role_hierarchy ==
    <<"global admin", "site admin", "event manager", "camp manager", "member">>

EventStatus == {"pending", "approved", "rejected", "cancelled"}

AssociationStatus == {"pending", "approved", "rejected"}

CampMemberRole == {"manager", "member"}

MemberApprovalMode == {"manager_only", "all_members"}

-----------------------------------------------------------------------------
(* Role hierarchy helpers *)

\* list.index(x) of Python, 1-based; 0 stands for the ValueError of a missing x
index(seq, x) ==
    IF \E i \in 1..Len(seq) : seq[i] = x
    THEN CHOOSE i \in 1..Len(seq) : seq[i] = x /\ \A j \in 1..(i - 1) : seq[j] # x
    ELSE 0

\* User.has_role_or_higher: UserRole(value) raises ValueError outside the enum
User_has_role_or_higher(user_role, r) ==
    IF user_role \in UserRole /\ r \in UserRole
    THEN index(get_role_hierarchy, user_role) <= index(get_role_hierarchy, r)
    ELSE FALSE

has_role_or_strictly_higher(user_role, required_role) ==
    IF user_role \in UserRole /\ index(get_role_hierarchy, required_role) # 0
    THEN index(get_role_hierarchy, user_role) < index(get_role_hierarchy, required_role)
    ELSE FALSE

\* app.api.decorators.has_role_or_higher
has_role_or_higher(user_role, required_role) ==
    IF user_role \in UserRole /\ index(get_role_hierarchy, required_role) # 0
    THEN index(get_role_hierarchy, user_role) <= index(get_role_hierarchy, required_role)
    ELSE FALSE

is_site_admin_or_higher(u) == User_has_role_or_higher(users[u].role, "site admin")

is_event_manager_or_higher(u) == User_has_role_or_higher(users[u].role, "event manager")

-----------------------------------------------------------------------------
(* Rows of the join tables *)

\* Query.first(): the oldest matching row, None when there is none
NoRow == [status |-> "none", role |-> "none"]

first(rows) == IF rows = <<>> THEN NoRow ELSE rows[1]

is_pending(m) == m.status = "pending"

is_approved(m) == m.status = "approved"

\* CampMember.is_manager
is_manager(m) == m.role = "manager" /\ is_approved(m)

\* User.get_camp_membership
get_camp_membership(u, c) == first(camp_members[<<c, u>>])

\* User.is_camp_manager
is_camp_manager(u, c) ==
    get_camp_membership(u, c) # NoRow /\ is_manager(get_camp_membership(u, c))

\* Camp.is_user_member
is_user_member(c, u) ==
    \E i \in 1..Len(camp_members[<<c, u>>]) : camp_members[<<c, u>>][i].status = "approved"

\* Camp.is_user_manager
is_user_manager(c, u) ==
    \E i \in 1..Len(camp_members[<<c, u>>]) :
        /\ camp_members[<<c, u>>][i].status = "approved"
        /\ camp_members[<<c, u>>][i].role = "manager"

\* Camp.can_user_approve_members
can_user_approve_members(c, u) ==
    IF camps[c].member_approval_mode = "manager_only"
    THEN is_user_manager(c, u)
    ELSE is_user_member(c, u)

\* User.can_approve_camp_members
can_approve_camp_members(u, c) ==
    IF is_site_admin_or_higher(u) THEN TRUE
    ELSE IF c \in DOMAIN camps THEN can_user_approve_members(c, u)
    ELSE FALSE

\* camp.camp_members.filter_by(status=APPROVED, role=MANAGER).count()
manager_count(c) ==
    Cardinality(UNION {{<<u, i>> : i \in {j \in 1..Len(camp_members[<<c, u>>]) :
                                            /\ camp_members[<<c, u>>][j].status = "approved"
                                            /\ camp_members[<<c, u>>][j].role = "manager"}} :
                       u \in UserIds})

-----------------------------------------------------------------------------
(* Accounts *)

\* No row: the id a lookup that finds nothing returns, the caller of an anonymous
\* request
NoId == 0

\* A password_hash column that is NULL
NoPassword == <<>>

\* werkzeug's generate_password_hash and check_password_hash
generate_password_hash(password) == <<"hash", password>>

check_password_hash(pwhash, password) == pwhash = <<"hash", password>>

\* User.check_password: an account without a password (OAuth only) matches nothing
check_password(user, password) ==
    user.password_hash # NoPassword /\ check_password_hash(user.password_hash, password)

\* The address of the account with the given id as it was registered
InitEmail(id) == <<"a@x", "b@x", "c@x", "d@x", "e@x", "f@x">>[id]

\* A users row: email_verification_token tells whether a verification link is
\* outstanding, email_change_new_email is "" when NULL (the link of an email change
\* is outstanding exactly when it is set)
User(role, email, email_verified, password_hash) ==
    [role |-> role, is_active |-> TRUE, email |-> email, email_verified |-> email_verified,
     password_hash |-> password_hash,
     email_verification_token |-> ~email_verified /\ password_hash # NoPassword,
     email_change_new_email |-> ""]

\* An account as registration leaves it once its address is verified: active,
\* with the password "password"
NewUser(id, role) ==
    User(role, InitEmail(id), TRUE, generate_password_hash("password"))

uix_user_email_dropped(table) == TRUE

\* User.email, unique=True: what a commit of the table must satisfy
uix_user_email(table) ==
    \A u \in DOMAIN table, v \in DOMAIN table :
        table[u].email = table[v].email => u = v

\* str.lower over the addresses requests carry
lower(s) == IF s = "A@x" THEN "a@x" ELSE IF s = "B@x" THEN "b@x" ELSE s

\* User.query.filter_by(email=email).first(): the id, NoId when there is none
user_by_email(email) ==
    IF \E u \in DOMAIN users : users[u].email = email
    THEN CHOOSE u \in DOMAIN users :
             /\ users[u].email = email
             /\ \A v \in DOMAIN users : users[v].email = email => u <= v
    ELSE NoId

-----------------------------------------------------------------------------
(* Requests and responses *)

\* A handled request: the handler, the blueprint it belongs to ("api" for
\* src/app/api, "web" for the server-rendered routes), the caller, the ids and the
\* body value of the request, and of the response r the status code, for a
\* server-rendered handler the category of the message it flashes, and for a
\* read the ids of the rows it discloses
Request(op, via, caller, camp, user, event, arg, r) ==
    [op |-> op, via |-> via, caller |-> caller, camp |-> camp, user |-> user,
     event |-> event, arg |-> arg, code |-> r.code,
     flash |-> IF "flash" \in DOMAIN r THEN r.flash ELSE "",
     data |-> IF "data" \in DOMAIN r THEN r.data ELSE {}]

\* The blueprints a request reaches a handler through
Via == {"api", "web"}

\* The first row of a pair's rows with its status or role replaced
SetFirst(rows, field, value) == [rows EXCEPT ![1] = [rows[1] EXCEPT ![field] = value]]

-----------------------------------------------------------------------------
(* Decorators *)

\* flask_login.login_required over User.is_active: the session of a deleted or
\* suspended user is not authenticated, and the request is redirected to the login
login_required(current_user) ==
    current_user \in DOMAIN users /\ users[current_user].is_active

to_login == [code |-> 302, flash |-> "info"]

\* jwt_required_role(required_role): the error it returns, 0 when it lets the
\* request through
jwt_required_role(current_user, required_role) ==
    IF current_user \notin DOMAIN users THEN 404
    ELSE IF ~has_role_or_higher(users[current_user].role, required_role) THEN 403
    ELSE 0

\* app.auth.decorators.require_role_or_higher
require_role_or_higher(current_user, r) ==
    User_has_role_or_higher(users[current_user].role, r)

-----------------------------------------------------------------------------
(* Camp handlers of src/app/api/camps.py; the server-rendered handlers of  *)
(* src/app/camps/routes.py take the same branches.                         *)

\* Request bodies of create_camp and update_camp: the name and the approval mode,
\* which neither handler validates against MemberApprovalMode
CampData ==
    {[name |-> "camp", member_approval_mode |-> "manager_only"],
     [name |-> "camp", member_approval_mode |-> "all_members"],
     [name |-> "camp", member_approval_mode |-> "anyone"],
     [name |-> "", member_approval_mode |-> "manager_only"]}

create_camp_without_membership(current_user, data) ==
    LET camp_id == Cardinality(DOMAIN camps) + 1
        unchanged == [camps |-> camps, camp_members |-> camp_members]
    IN  IF current_user \notin DOMAIN users THEN [code |-> 404] @@ unchanged
        ELSE IF data.name = "" THEN [code |-> 400] @@ unchanged
        ELSE [code |-> 201,
              camps |-> camps @@ (camp_id :> [creator_id |-> current_user,
                                            member_approval_mode |-> data.member_approval_mode]),
              camp_members |-> camp_members]

\* api/camps.py create_camp: the camp and its creator's membership in one commit
create_camp(current_user, data) ==
    LET camp_id == Cardinality(DOMAIN camps) + 1
        unchanged == [camps |-> camps, camp_members |-> camp_members]
    IN  IF current_user \notin DOMAIN users THEN [code |-> 404] @@ unchanged
        ELSE IF data.name = "" THEN [code |-> 400] @@ unchanged
        ELSE [code |-> 201,
              camps |-> camps @@ (camp_id :> [creator_id |-> current_user,
                                            member_approval_mode |-> data.member_approval_mode]),
              camp_members |-> [camp_members EXCEPT ![<<camp_id, current_user>>] =
                                   Append(@, [status |-> "approved", role |-> "manager"])]]

\* camps/routes.py create_camp: CampForm requires the name and one of the two
\* approval modes, and a form that does not validate is rendered again
routes_create_camp(current_user, data) ==
    LET unchanged == [camps |-> camps, camp_members |-> camp_members]
        r == create_camp(current_user, data)
    IN  IF ~login_required(current_user) THEN to_login @@ unchanged
        ELSE IF data.name = "" \/ data.member_approval_mode \notin MemberApprovalMode
             THEN [code |-> 200, flash |-> ""] @@ unchanged
        ELSE [code |-> 302, flash |-> "success", camps |-> r.camps,
              camp_members |-> r.camp_members]

update_camp(current_user, camp_id, data) ==
    IF current_user \notin DOMAIN users THEN [code |-> 404, camps |-> camps]
    ELSE IF camp_id \notin DOMAIN camps THEN [code |-> 404, camps |-> camps]
    ELSE IF camps[camp_id].creator_id # current_user /\ ~is_site_admin_or_higher(current_user)
         THEN [code |-> 403, camps |-> camps]
    ELSE [code |-> 200,
          camps |-> [camps EXCEPT ![camp_id].member_approval_mode = data.member_approval_mode]]

\* The existence check of request_membership: the error it returns, 0 when it passes
request_membership_check(current_user, camp_id) ==
    IF current_user \notin DOMAIN users THEN 404
    ELSE IF camp_id \notin DOMAIN camps THEN 404
    ELSE IF get_camp_membership(current_user, camp_id) # NoRow THEN 400
    ELSE 0

uix_camp_user_dropped(camp_id, user_id) == TRUE

\* UniqueConstraint('camp_id', 'user_id'): whether the commit of a new row passes
uix_camp_user(camp_id, user_id) == camp_members[<<camp_id, user_id>>] = <<>>

\* db.session.add(membership); db.session.commit() of request_membership: the
\* foreign keys and the unique constraint fail the commit with an IntegrityError
request_membership_commit(current_user, camp_id) ==
    IF /\ current_user \in DOMAIN users
       /\ camp_id \in DOMAIN camps
       /\ uix_camp_user(camp_id, current_user)
    THEN [code |-> 200,
          camp_members |-> [camp_members EXCEPT ![<<camp_id, current_user>>] =
                               Append(@, [status |-> "pending", role |-> "member"])]]
    ELSE [code |-> 500, camp_members |-> camp_members]

request_membership(current_user, camp_id) ==
    IF request_membership_check(current_user, camp_id) # 0
    THEN [code |-> request_membership_check(current_user, camp_id),
          camp_members |-> camp_members]
    ELSE request_membership_commit(current_user, camp_id)

\* camps/routes.py request_membership: an existing row is answered with a flashed
\* notice (an error when the row is rejected) and a redirect to the camp; the
\* response of the checks before the insert, code 0 when they pass
routes_request_membership_check(current_user, camp_id) ==
    IF ~login_required(current_user) THEN to_login
    ELSE IF camp_id \notin DOMAIN camps THEN [code |-> 404, flash |-> ""]
    ELSE IF is_approved(get_camp_membership(current_user, camp_id))
         THEN [code |-> 302, flash |-> "info"]
    ELSE IF is_pending(get_camp_membership(current_user, camp_id))
         THEN [code |-> 302, flash |-> "info"]
    ELSE IF get_camp_membership(current_user, camp_id) # NoRow
         THEN [code |-> 302, flash |-> "error"]
    ELSE [code |-> 0, flash |-> ""]

routes_request_membership_commit(current_user, camp_id) ==
    LET r == request_membership_commit(current_user, camp_id)
    IN  IF r.code = 200
        THEN [code |-> 302, flash |-> "success", camp_members |-> r.camp_members]
        ELSE r

routes_request_membership(current_user, camp_id) ==
    IF routes_request_membership_check(current_user, camp_id).code # 0
    THEN routes_request_membership_check(current_user, camp_id)
             @@ [camp_members |-> camp_members]
    ELSE routes_request_membership_commit(current_user, camp_id)

\* approve_member and reject_member differ in the status they set
decide_member(current_user, camp_id, user_id, status) ==
    LET rows == camp_members[<<camp_id, user_id>>]
        fail(code) == [code |-> code, camp_members |-> camp_members]
    IN  IF current_user \notin DOMAIN users THEN fail(404)
        ELSE IF camp_id \notin DOMAIN camps THEN fail(404)
        ELSE IF user_id \notin DOMAIN users THEN fail(404)
        ELSE IF /\ ~is_site_admin_or_higher(current_user)
                /\ ~can_approve_camp_members(current_user, camp_id) THEN fail(403)
        ELSE IF rows = <<>> THEN fail(404)
        ELSE IF ~is_pending(first(rows)) THEN fail(400)
        ELSE [code |-> 200,
              camp_members |-> [camp_members EXCEPT ![<<camp_id, user_id>>] =
                                   SetFirst(rows, "status", status)]]

approve_member(current_user, camp_id, user_id) ==
    decide_member(current_user, camp_id, user_id, "approved")

reject_member(current_user, camp_id, user_id) ==
    decide_member(current_user, camp_id, user_id, "rejected")

promote_member_by_anyone(current_user, camp_id, user_id) ==
    LET rows == camp_members[<<camp_id, user_id>>]
        fail(code) == [code |-> code, camp_members |-> camp_members]
    IN  IF current_user \notin DOMAIN users THEN fail(404)
        ELSE IF camp_id \notin DOMAIN camps THEN fail(404)
        ELSE IF user_id \notin DOMAIN users THEN fail(404)
        ELSE IF rows = <<>> THEN fail(404)
        ELSE IF ~is_approved(first(rows)) THEN fail(400)
        ELSE IF is_manager(first(rows)) THEN fail(400)
        ELSE [code |-> 200,
              camp_members |-> [camp_members EXCEPT ![<<camp_id, user_id>>] =
                                   SetFirst(rows, "role", "manager")]]

\* api/camps.py promote_member
promote_member(current_user, camp_id, user_id) ==
    LET rows == camp_members[<<camp_id, user_id>>]
        fail(code) == [code |-> code, camp_members |-> camp_members]
    IN  IF current_user \notin DOMAIN users THEN fail(404)
        ELSE IF camp_id \notin DOMAIN camps THEN fail(404)
        ELSE IF user_id \notin DOMAIN users THEN fail(404)
        ELSE IF /\ ~is_site_admin_or_higher(current_user)
                /\ ~is_camp_manager(current_user, camp_id) THEN fail(403)
        ELSE IF rows = <<>> THEN fail(404)
        ELSE IF ~is_approved(first(rows)) THEN fail(400)
        ELSE IF is_manager(first(rows)) THEN fail(400)
        ELSE [code |-> 200,
              camp_members |-> [camp_members EXCEPT ![<<camp_id, user_id>>] =
                                   SetFirst(rows, "role", "manager")]]

demote_manager(current_user, camp_id, user_id) ==
    LET rows == camp_members[<<camp_id, user_id>>]
        fail(code) == [code |-> code, camp_members |-> camp_members]
    IN  IF current_user \notin DOMAIN users THEN fail(404)
        ELSE IF camp_id \notin DOMAIN camps THEN fail(404)
        ELSE IF user_id \notin DOMAIN users THEN fail(404)
        ELSE IF /\ ~is_site_admin_or_higher(current_user)
                /\ ~is_camp_manager(current_user, camp_id) THEN fail(403)
        ELSE IF rows = <<>> THEN fail(404)
        ELSE IF ~is_manager(first(rows)) THEN fail(400)
        ELSE IF manager_count(camp_id) <= 1 THEN fail(400)
        ELSE [code |-> 200,
              camp_members |-> [camp_members EXCEPT ![<<camp_id, user_id>>] =
                                   SetFirst(rows, "role", "member")]]

\* camps/routes.py promote_member: the refusals after the permission check are
\* flashed messages with a redirect to the member management page
routes_promote_member(current_user, camp_id, user_id) ==
    LET rows == camp_members[<<camp_id, user_id>>]
        fail(code, flash) == [code |-> code, flash |-> flash, camp_members |-> camp_members]
    IN  IF ~login_required(current_user) THEN to_login @@ [camp_members |-> camp_members]
        ELSE IF camp_id \notin DOMAIN camps THEN fail(404, "")
        ELSE IF user_id \notin DOMAIN users THEN fail(404, "")
        ELSE IF /\ ~is_site_admin_or_higher(current_user)
                /\ ~is_camp_manager(current_user, camp_id) THEN fail(403, "error")
        ELSE IF rows = <<>> THEN fail(404, "")
        ELSE IF ~is_approved(first(rows)) THEN fail(302, "error")
        ELSE IF is_manager(first(rows)) THEN fail(302, "info")
        ELSE [code |-> 302, flash |-> "success",
              camp_members |-> [camp_members EXCEPT ![<<camp_id, user_id>>] =
                                   SetFirst(rows, "role", "manager")]]

\* camps/routes.py demote_manager
routes_demote_manager(current_user, camp_id, user_id) ==
    LET rows == camp_members[<<camp_id, user_id>>]
        fail(code, flash) == [code |-> code, flash |-> flash, camp_members |-> camp_members]
    IN  IF ~login_required(current_user) THEN to_login @@ [camp_members |-> camp_members]
        ELSE IF camp_id \notin DOMAIN camps THEN fail(404, "")
        ELSE IF user_id \notin DOMAIN users THEN fail(404, "")
        ELSE IF /\ ~is_site_admin_or_higher(current_user)
                /\ ~is_camp_manager(current_user, camp_id) THEN fail(403, "error")
        ELSE IF rows = <<>> THEN fail(404, "")
        ELSE IF ~is_manager(first(rows)) THEN fail(302, "info")
        ELSE IF manager_count(camp_id) <= 1 THEN fail(302, "error")
        ELSE [code |-> 302, flash |-> "success",
              camp_members |-> [camp_members EXCEPT ![<<camp_id, user_id>>] =
                                   SetFirst(rows, "role", "member")]]

-----------------------------------------------------------------------------
(* Account handlers of src/app/api/users.py *)

\* db.session.delete(current_user): the memberships cascade; the camps and events
\* the user created would get a NULL creator_id, which nullable=False refuses,
\* so the commit raises and the handler rolls back
delete_own_account(current_user) ==
    LET unchanged == [users |-> users, camp_members |-> camp_members,
                      oauth_providers |-> oauth_providers]
    IN  IF current_user \notin DOMAIN users THEN [code |-> 404] @@ unchanged
        ELSE IF \/ \E c \in DOMAIN camps : camps[c].creator_id = current_user
                \/ \E e \in DOMAIN events : events[e].creator_id = current_user
             THEN [code |-> 500] @@ unchanged
        ELSE [code |-> 200,
              users |-> [u \in DOMAIN users \ {current_user} |-> users[u]],
              camp_members |-> [p \in DOMAIN camp_members |->
                                   IF p[2] = current_user THEN <<>> ELSE camp_members[p]],
              oauth_providers |-> {o \in oauth_providers : o.user_id # current_user}]

\* Role values a change_user_role request carries
RoleData == {"site admin", "member", "superuser"}

change_user_role_also_own(current_user, user_id, new_role) ==
    IF current_user \notin DOMAIN users THEN [code |-> 404, users |-> users]
    ELSE IF ~has_role_or_higher(users[current_user].role, "global admin")
         THEN [code |-> 403, users |-> users]
    ELSE IF user_id \notin DOMAIN users THEN [code |-> 404, users |-> users]
    ELSE IF new_role \notin UserRole THEN [code |-> 400, users |-> users]
    ELSE [code |-> 200, users |-> [users EXCEPT ![user_id].role = new_role]]

\* api/users.py change_user_role
change_user_role(current_user, user_id, new_role) ==
    IF current_user \notin DOMAIN users THEN [code |-> 404, users |-> users]
    ELSE IF ~has_role_or_higher(users[current_user].role, "global admin")
         THEN [code |-> 403, users |-> users]
    ELSE IF user_id \notin DOMAIN users THEN [code |-> 404, users |-> users]
    ELSE IF user_id = current_user THEN [code |-> 403, users |-> users]
    ELSE IF new_role \notin UserRole THEN [code |-> 400, users |-> users]
    ELSE [code |-> 200, users |-> [users EXCEPT ![user_id].role = new_role]]

\* User.is_global_admin
is_global_admin(u) == users[u].role = "global admin"

\* admin/routes.py change_user_role: ChangeUserRoleForm offers the five roles, and
\* a form that does not validate is rendered again
routes_change_user_role(current_user, user_id, new_role) ==
    LET fail(code, flash) == [code |-> code, flash |-> flash, users |-> users]
    IN  IF ~login_required(current_user) THEN to_login @@ [users |-> users]
        ELSE IF ~is_global_admin(current_user) THEN fail(403, "error")
        ELSE IF user_id \notin DOMAIN users THEN fail(404, "")
        ELSE IF user_id = current_user THEN fail(302, "error")
        ELSE IF new_role \notin UserRole THEN fail(200, "")
        ELSE [code |-> 302, flash |-> "success",
              users |-> [users EXCEPT ![user_id].role = new_role]]

-----------------------------------------------------------------------------
(* Suspension and login: src/app/api/admin.py, src/app/api/auth.py and      *)
(* src/app/auth/utils.py.  A login answers with the user its tokens name,   *)
(* NoId when it issues none.                                                *)

suspend_user_of_any_rank(current_user, user_id) ==
    LET refused == jwt_required_role(current_user, "site admin")
    IN  IF refused # 0 THEN [code |-> refused, users |-> users]
        ELSE IF user_id \notin DOMAIN users THEN [code |-> 404, users |-> users]
        ELSE IF user_id = current_user THEN [code |-> 403, users |-> users]
        ELSE IF ~users[user_id].is_active THEN [code |-> 400, users |-> users]
        ELSE [code |-> 200, users |-> [users EXCEPT ![user_id].is_active = FALSE]]

\* api/admin.py suspend_user
suspend_user(current_user, user_id) ==
    LET refused == jwt_required_role(current_user, "site admin")
    IN  IF refused # 0 THEN [code |-> refused, users |-> users]
        ELSE IF user_id \notin DOMAIN users THEN [code |-> 404, users |-> users]
        ELSE IF user_id = current_user THEN [code |-> 403, users |-> users]
        ELSE IF User_has_role_or_higher(users[user_id].role, users[current_user].role)
             THEN [code |-> 403, users |-> users]
        ELSE IF ~users[user_id].is_active THEN [code |-> 400, users |-> users]
        ELSE [code |-> 200, users |-> [users EXCEPT ![user_id].is_active = FALSE]]

\* api/admin.py reactivate_user
reactivate_user(current_user, user_id) ==
    LET refused == jwt_required_role(current_user, "site admin")
    IN  IF refused # 0 THEN [code |-> refused, users |-> users]
        ELSE IF user_id \notin DOMAIN users THEN [code |-> 404, users |-> users]
        ELSE IF users[user_id].is_active THEN [code |-> 400, users |-> users]
        ELSE [code |-> 200, users |-> [users EXCEPT ![user_id].is_active = TRUE]]

\* Addresses and passwords a login request carries
LoginEmail == {"a@x", "b@x", "B@x", "z@x", ""}

LoginPassword == {"password", "bad"}

login_before_verification(data) ==
    LET email == lower(data.email)
        user == user_by_email(email)
    IN  IF email = "" \/ data.password = "" THEN [code |-> 400, user |-> NoId]
        ELSE IF user = NoId \/ ~check_password(users[user], data.password)
             THEN [code |-> 401, user |-> NoId]
        ELSE [code |-> 200, user |-> user]

\* api/auth.py login
login(data) ==
    LET email == lower(data.email)
        user == user_by_email(email)
    IN  IF email = "" \/ data.password = "" THEN [code |-> 400, user |-> NoId]
        ELSE IF user = NoId \/ ~check_password(users[user], data.password)
             THEN [code |-> 401, user |-> NoId]
        ELSE IF ~users[user].email_verified THEN [code |-> 401, user |-> NoId]
        ELSE [code |-> 200, user |-> user]

\* auth/routes.py email_login of an anonymous visitor: login_user opens no session
\* for a suspended user, and the handler flashes success all the same
email_login(data) ==
    LET user == user_by_email(lower(data.email))
    IN  IF data.email = "" \/ data.password = ""
        THEN [code |-> 200, flash |-> "", user |-> NoId]
        ELSE IF user = NoId \/ ~check_password(users[user], data.password)
             THEN [code |-> 200, flash |-> "error", user |-> NoId]
        ELSE IF ~users[user].email_verified
             THEN [code |-> 200, flash |-> "warning", user |-> NoId]
        ELSE [code |-> 302, flash |-> "success",
              user |-> IF users[user].is_active THEN user ELSE NoId]

\* Request bodies of register and create_user
RegisterData == [email : {"b@x", "B@x", "z@x", ""}, password : {"password", "short"}]

\* api/auth.py register: the verification link is sent after the commit
register(data) ==
    LET email == lower(data.email)
        fail(code) == [code |-> code, users |-> users, user_id_seq |-> user_id_seq]
        table == users @@ (user_id_seq :>
                     User("member", email, FALSE, generate_password_hash(data.password)))
    IN  IF email = "" \/ data.password = "" THEN fail(400)
        ELSE IF Len(data.password) < 8 THEN fail(400)
        ELSE IF user_by_email(email) # NoId THEN fail(400)
        ELSE IF ~uix_user_email(table) THEN fail(500)
        ELSE [code |-> 201, users |-> table, user_id_seq |-> user_id_seq + 1]

\* auth/routes.py register with RegistrationForm: a form that does not validate is
\* rendered again
routes_register(data) ==
    LET email == lower(data.email)
        fail(code) == [code |-> code, flash |-> "", users |-> users,
                       user_id_seq |-> user_id_seq]
        table == users @@ (user_id_seq :>
                     User("member", email, FALSE, generate_password_hash(data.password)))
    IN  IF data.email = "" \/ Len(data.password) < 8 THEN fail(200)
        ELSE IF user_by_email(email) # NoId THEN fail(200)
        ELSE IF ~uix_user_email(table) THEN fail(500)
        ELSE [code |-> 302, flash |-> "success", users |-> table,
              user_id_seq |-> user_id_seq + 1]

\* User.query.filter_by(email_verification_token=token).first(): a link carries
\* the token of the account it was sent for
by_verification_token(token) ==
    IF token \in DOMAIN users /\ users[token].email_verification_token
    THEN token ELSE NoId

\* api/auth.py and auth/routes.py verify_email; fresh tells whether
\* verify_token_expiry finds the link within its hours
verify_email(token, fresh) ==
    LET user == by_verification_token(token)
    IN  IF user = NoId THEN [code |-> 400, flash |-> "error", users |-> users]
        ELSE IF ~fresh THEN [code |-> 400, flash |-> "error", users |-> users]
        ELSE [code |-> 200, flash |-> "success",
              users |-> [users EXCEPT ![user].email_verified = TRUE,
                                      ![user].email_verification_token = FALSE]]

\* Request bodies of create_user
CreateUserData ==
    {[email |-> "b@x", password |-> "password", role |-> "member"],
     [email |-> "B@x", password |-> "password", role |-> "member"],
     [email |-> "z@x", password |-> "password", role |-> "camp manager"],
     [email |-> "z@x", password |-> "password", role |-> "admin"],
     [email |-> "z@x", password |-> "short", role |-> "member"],
     [email |-> "", password |-> "password", role |-> "member"]}

\* api/admin.py create_user: the address is stripped and not lower-cased
create_user(current_user, data) ==
    LET refused == jwt_required_role(current_user, "global admin")
        fail(code) == [code |-> code, users |-> users, user_id_seq |-> user_id_seq]
        table == users @@ (user_id_seq :>
                     User(data.role, data.email, TRUE,
                          generate_password_hash(data.password)))
    IN  IF refused # 0 THEN fail(refused)
        ELSE IF data.email = "" \/ data.password = "" THEN fail(400)
        ELSE IF Len(data.password) < 8 THEN fail(400)
        ELSE IF user_by_email(data.email) # NoId THEN fail(400)
        ELSE IF data.role \notin UserRole THEN fail(400)
        ELSE IF ~uix_user_email(table) THEN fail(500)
        ELSE [code |-> 201, users |-> table, user_id_seq |-> user_id_seq + 1]

\* Addresses an email change asks for
NewEmail == {"B@x", "z@x", ""}

\* User.generate_email_change_token, committed by send_email_change_verification
generate_email_change_token(user, new_email) ==
    [users EXCEPT ![user].email_change_new_email = lower(new_email)]

\* api/users.py request_email_change
request_email_change(current_user, data) ==
    LET new_email == lower(data)
    IN  IF current_user \notin DOMAIN users THEN [code |-> 404, users |-> users]
        ELSE IF new_email = "" THEN [code |-> 400, users |-> users]
        ELSE IF user_by_email(new_email) # NoId THEN [code |-> 400, users |-> users]
        ELSE [code |-> 200, users |-> generate_email_change_token(current_user, new_email)]

\* main/routes.py change_email with EmailChangeForm
change_email(current_user, data) ==
    IF ~login_required(current_user) THEN to_login @@ [users |-> users]
    ELSE IF data = "" THEN [code |-> 200, flash |-> "", users |-> users]
    ELSE IF lower(data) = lower(users[current_user].email)
         THEN [code |-> 200, flash |-> "", users |-> users]
    ELSE IF user_by_email(lower(data)) # NoId
         THEN [code |-> 200, flash |-> "", users |-> users]
    ELSE [code |-> 302, flash |-> "info",
          users |-> generate_email_change_token(current_user, data)]

\* User.query.filter_by(email_change_token=token).first()
by_email_change_token(token) ==
    IF token \in DOMAIN users /\ users[token].email_change_new_email # ""
    THEN token ELSE NoId

\* api/users.py verify_email_change: the commit raises IntegrityError when the new
\* address is another account's by now, and the request ends with 500
verify_email_change(token, fresh) ==
    LET user == by_email_change_token(token)
        table == [users EXCEPT ![user].email = users[user].email_change_new_email,
                               ![user].email_change_new_email = ""]
    IN  IF user = NoId THEN [code |-> 400, users |-> users]
        ELSE IF ~fresh THEN [code |-> 400, users |-> users]
        ELSE IF ~uix_user_email(table) THEN [code |-> 500, users |-> users]
        ELSE [code |-> 200, users |-> table]

\* main/routes.py verify_email_change: an expired link is cleared; otherwise
\* User.complete_email_change, which also marks the address verified
routes_verify_email_change(token, fresh) ==
    LET user == by_email_change_token(token)
        table == [users EXCEPT ![user].email = users[user].email_change_new_email,
                               ![user].email_change_new_email = "",
                               ![user].email_verified = TRUE]
    IN  IF user = NoId THEN [code |-> 302, flash |-> "error", users |-> users]
        ELSE IF ~fresh
             THEN [code |-> 302, flash |-> "error",
                   users |-> [users EXCEPT ![user].email_change_new_email = ""]]
        ELSE IF ~uix_user_email(table) THEN [code |-> 500, flash |-> "", users |-> users]
        ELSE [code |-> 302, flash |-> "success", users |-> table]

\* OAuthProvider.query.filter_by(provider_name, provider_user_id).first()
oauth_provider(provider, provider_user_id) ==
    LET rows == {o \in oauth_providers : /\ o.provider_name = provider
                                         /\ o.provider_user_id = provider_user_id}
    IN  IF rows = {} THEN NoId
        ELSE CHOOSE u \in {o.user_id : o \in rows} :
                 \A v \in {o.user_id : o \in rows} : u <= v

uix_provider_oauth_id_dropped(table) == TRUE

\* UniqueConstraint('provider_name', 'provider_user_id'): what a commit of the
\* oauth_providers table must satisfy
uix_provider_oauth_id(table) ==
    \A o1 \in table, o2 \in table :
        (/\ o1.provider_name = o2.provider_name
         /\ o1.provider_user_id = o2.provider_user_id) => o1 = o2

\* The two queries of link_or_create_user: the user the identity is linked to and
\* the user with the address, NoId when there is none
link_or_create_user_query(email, provider, provider_user_id) ==
    [linked |-> oauth_provider(provider, provider_user_id),
     found |-> user_by_email(email)]

\* What link_or_create_user writes after its queries answered q; a commit that a
\* unique constraint rejects raises, and nothing is written
link_or_create_user_commit(q, email, provider, provider_user_id) ==
    LET user == IF q.found = NoId THEN user_id_seq ELSE q.found
        row == [provider_name |-> provider, provider_user_id |-> provider_user_id,
                user_id |-> user]
        created == User("member", email, TRUE, NoPassword)
        unchanged == [users |-> users, oauth_providers |-> oauth_providers,
                      user_id_seq |-> user_id_seq]
        table == IF q.found = NoId THEN users @@ (user :> created)
                 ELSE IF user \in DOMAIN users
                      THEN [users EXCEPT ![user].email_verified = TRUE]
                      ELSE users
    IN  IF q.linked # NoId THEN [user |-> q.linked] @@ unchanged
        ELSE IF \/ ~uix_user_email(table)
                \/ ~uix_provider_oauth_id(oauth_providers \cup {row})
                \/ user \notin DOMAIN table
             THEN [user |-> NoId] @@ unchanged
        ELSE [user |-> user, users |-> table,
              oauth_providers |-> oauth_providers \cup {row},
              user_id_seq |-> IF q.found = NoId THEN user_id_seq + 1 ELSE user_id_seq]

\* auth/utils.py link_or_create_user
link_or_create_user(email, provider, provider_user_id) ==
    link_or_create_user_commit(
        link_or_create_user_query(email, provider, provider_user_id),
        email, provider, provider_user_id)

\* What the identity provider answers a callback with: whether the code exchanges
\* for a token, and the profile
OAuthProviderName == {"google", "github"}

UserInfo == [email : {"b@x", "z@x", ""}, sub : {"g1", "g2"}]

\* api/auth.py oauth_callback up to the call of link_or_create_user: whether it
\* redirects to the login with an error
oauth_callback_check(provider, token, userinfo) ==
    \/ provider \notin {"google", "microsoft"}
    \/ ~token
    \/ userinfo.email = "" \/ userinfo.sub = ""

\* api/auth.py oauth_callback
oauth_callback(provider, token, userinfo) ==
    LET unchanged == [users |-> users, oauth_providers |-> oauth_providers,
                      user_id_seq |-> user_id_seq]
    IN  IF provider \notin {"google", "microsoft"} THEN [code |-> 302, user |-> NoId] @@ unchanged
        ELSE IF ~token THEN [code |-> 302, user |-> NoId] @@ unchanged
        ELSE IF userinfo.email = "" \/ userinfo.sub = ""
             THEN [code |-> 302, user |-> NoId] @@ unchanged
        ELSE [code |-> 302] @@ link_or_create_user(userinfo.email, provider, userinfo.sub)

-----------------------------------------------------------------------------
(* Event handlers of src/app/api/events.py and src/app/events/routes.py *)

\* Request bodies of create_event: the title and the dates (as day numbers)
EventData ==
    {[title |-> "event", start_date |-> 1, end_date |-> 2],
     [title |-> "", start_date |-> 1, end_date |-> 2],
     [title |-> "event", start_date |-> 2, end_date |-> 1]}

NewEvent(current_user) ==
    events @@ ((Cardinality(DOMAIN events) + 1) :>
                   [creator_id |-> current_user, status |-> "pending"])

create_event_any_role(current_user, data) ==
    IF current_user \notin DOMAIN users THEN [code |-> 404, events |-> events]
    ELSE IF data.title = "" THEN [code |-> 400, events |-> events]
    ELSE IF data.end_date < data.start_date THEN [code |-> 400, events |-> events]
    ELSE [code |-> 201, events |-> NewEvent(current_user)]

\* api/events.py create_event
create_event(current_user, data) ==
    IF jwt_required_role(current_user, "event manager") # 0
    THEN [code |-> jwt_required_role(current_user, "event manager"), events |-> events]
    ELSE IF data.title = "" THEN [code |-> 400, events |-> events]
    ELSE IF data.end_date < data.start_date THEN [code |-> 400, events |-> events]
    ELSE [code |-> 201, events |-> NewEvent(current_user)]

\* events/routes.py create_event: a form that does not validate is rendered again
routes_create_event(current_user, data) ==
    IF ~login_required(current_user) THEN to_login @@ [events |-> events]
    ELSE IF ~require_role_or_higher(current_user, "event manager")
         THEN [code |-> 403, flash |-> "error", events |-> events]
    ELSE IF data.title = "" \/ data.end_date < data.start_date
         THEN [code |-> 200, flash |-> "", events |-> events]
    ELSE [code |-> 302, flash |-> "success", events |-> NewEvent(current_user)]

decide_event_by_event_manager(current_user, event_id, status) ==
    IF jwt_required_role(current_user, "event manager") # 0
    THEN [code |-> jwt_required_role(current_user, "event manager"), events |-> events]
    ELSE IF event_id \notin DOMAIN events THEN [code |-> 404, events |-> events]
    ELSE IF events[event_id].status # "pending" THEN [code |-> 400, events |-> events]
    ELSE [code |-> 200, events |-> [events EXCEPT ![event_id].status = status]]

\* The user of an optional JWT or of the session: nobody for an anonymous request
\* and for a token whose user is gone
optional_user(current_user) == IF current_user \in DOMAIN users THEN current_user ELSE NoId

\* api/events.py list_events: the events the caller is shown
list_events(current_user) ==
    LET cu == optional_user(current_user)
    IN  [code |-> 200,
         data |-> IF cu # NoId /\ is_site_admin_or_higher(cu) THEN DOMAIN events
                  ELSE IF cu # NoId /\ User_has_role_or_higher(users[cu].role, "event manager")
                       THEN {e \in DOMAIN events : \/ events[e].creator_id = cu
                                                   \/ events[e].status = "approved"}
                  ELSE {e \in DOMAIN events : events[e].status = "approved"}]

get_event_for_event_managers(current_user, event_id) ==
    LET cu == optional_user(current_user)
    IN  IF event_id \notin DOMAIN events THEN [code |-> 404, data |-> {}]
        ELSE IF cu # NoId /\ is_event_manager_or_higher(cu)
             THEN [code |-> 200, data |-> {event_id}]
        ELSE IF cu # NoId /\ events[event_id].creator_id = cu
             THEN [code |-> 200, data |-> {event_id}]
        ELSE IF events[event_id].status # "approved" THEN [code |-> 403, data |-> {}]
        ELSE [code |-> 200, data |-> {event_id}]

\* api/events.py get_event
get_event(current_user, event_id) ==
    LET cu == optional_user(current_user)
    IN  IF event_id \notin DOMAIN events THEN [code |-> 404, data |-> {}]
        ELSE IF cu # NoId /\ is_site_admin_or_higher(cu)
             THEN [code |-> 200, data |-> {event_id}]
        ELSE IF cu # NoId /\ events[event_id].creator_id = cu
             THEN [code |-> 200, data |-> {event_id}]
        ELSE IF events[event_id].status # "approved" THEN [code |-> 403, data |-> {}]
        ELSE [code |-> 200, data |-> {event_id}]

\* events/routes.py view_event: current_user.is_authenticated is the session of
\* an active user
view_event(current_user, event_id) ==
    LET authenticated == login_required(current_user)
    IN  IF event_id \notin DOMAIN events THEN [code |-> 404, data |-> {}]
        ELSE IF authenticated /\ is_site_admin_or_higher(current_user)
             THEN [code |-> 200, data |-> {event_id}]
        ELSE IF authenticated /\ events[event_id].creator_id = current_user
             THEN [code |-> 200, data |-> {event_id}]
        ELSE IF events[event_id].status # "approved" THEN [code |-> 403, data |-> {}]
        ELSE [code |-> 200, data |-> {event_id}]

\* approve_event and reject_event differ in the status they set
decide_event(current_user, event_id, status) ==
    IF jwt_required_role(current_user, "site admin") # 0
    THEN [code |-> jwt_required_role(current_user, "site admin"), events |-> events]
    ELSE IF event_id \notin DOMAIN events THEN [code |-> 404, events |-> events]
    ELSE IF events[event_id].status # "pending" THEN [code |-> 400, events |-> events]
    ELSE [code |-> 200, events |-> [events EXCEPT ![event_id].status = status]]

approve_event(current_user, event_id) == decide_event(current_user, event_id, "approved")

reject_event(current_user, event_id) == decide_event(current_user, event_id, "rejected")

\* events/routes.py approve_event and reject_event: an event that is not pending
\* is answered with a flashed error and a redirect to the event list
routes_decide_event(current_user, event_id, status) ==
    IF ~login_required(current_user) THEN to_login @@ [events |-> events]
    ELSE IF ~require_role_or_higher(current_user, "site admin")
         THEN [code |-> 403, flash |-> "error", events |-> events]
    ELSE IF event_id \notin DOMAIN events THEN [code |-> 404, flash |-> "", events |-> events]
    ELSE IF events[event_id].status # "pending"
         THEN [code |-> 302, flash |-> "error", events |-> events]
    ELSE [code |-> 302, flash |-> IF status = "approved" THEN "success" ELSE "error",
          events |-> [events EXCEPT ![event_id].status = status]]

routes_approve_event(current_user, event_id) ==
    routes_decide_event(current_user, event_id, "approved")

routes_reject_event(current_user, event_id) ==
    routes_decide_event(current_user, event_id, "rejected")

cancel_event_of_any_status(current_user, event_id) ==
    IF current_user \notin DOMAIN users THEN [code |-> 404, events |-> events]
    ELSE IF event_id \notin DOMAIN events THEN [code |-> 404, events |-> events]
    ELSE IF /\ events[event_id].creator_id # current_user
            /\ ~is_site_admin_or_higher(current_user) THEN [code |-> 403, events |-> events]
    ELSE [code |-> 200, events |-> [events EXCEPT ![event_id].status = "cancelled"]]

\* api/events.py cancel_event
cancel_event(current_user, event_id) ==
    IF current_user \notin DOMAIN users THEN [code |-> 404, events |-> events]
    ELSE IF event_id \notin DOMAIN events THEN [code |-> 404, events |-> events]
    ELSE IF /\ events[event_id].creator_id # current_user
            /\ ~is_site_admin_or_higher(current_user) THEN [code |-> 403, events |-> events]
    ELSE IF events[event_id].status # "approved" THEN [code |-> 400, events |-> events]
    ELSE [code |-> 200, events |-> [events EXCEPT ![event_id].status = "cancelled"]]

\* events/routes.py cancel_event: the cancellation is flashed as a warning
routes_cancel_event(current_user, event_id) ==
    LET fail(code, flash) == [code |-> code, flash |-> flash, events |-> events]
    IN  IF ~login_required(current_user) THEN to_login @@ [events |-> events]
        ELSE IF event_id \notin DOMAIN events THEN fail(404, "")
        ELSE IF /\ events[event_id].creator_id # current_user
                /\ ~is_site_admin_or_higher(current_user) THEN fail(403, "error")
        ELSE IF events[event_id].status # "approved" THEN fail(302, "error")
        ELSE [code |-> 302, flash |-> "warning",
              events |-> [events EXCEPT ![event_id].status = "cancelled"]]

\* Status values a change_event_status request carries
StatusData == EventStatus \cup {"", "archived", " cancelled "}

\* str.strip over the status values requests carry
strip(s) == IF s = " cancelled " THEN "cancelled" ELSE s

change_event_status_unvalidated(current_user, event_id, status) ==
    LET new_status == strip(status)
    IN  IF jwt_required_role(current_user, "site admin") # 0
        THEN [code |-> jwt_required_role(current_user, "site admin"), events |-> events]
        ELSE IF event_id \notin DOMAIN events THEN [code |-> 404, events |-> events]
        ELSE [code |-> 200, events |-> [events EXCEPT ![event_id].status = new_status]]

\* admin.py change_event_status
change_event_status(current_user, event_id, status) ==
    LET new_status == strip(status)
    IN  IF jwt_required_role(current_user, "site admin") # 0
        THEN [code |-> jwt_required_role(current_user, "site admin"), events |-> events]
        ELSE IF event_id \notin DOMAIN events THEN [code |-> 404, events |-> events]
        ELSE IF new_status = "" THEN [code |-> 400, events |-> events]
        ELSE IF new_status \notin EventStatus THEN [code |-> 400, events |-> events]
        ELSE [code |-> 200, events |-> [events EXCEPT ![event_id].status = new_status]]

-----------------------------------------------------------------------------
(* Camp-event association handlers *)

\* api/events.py approve_camp and reject_camp differ in the status they set
decide_camp(current_user, event_id, camp_id, status) ==
    LET rows == associations[<<camp_id, event_id>>]
        fail(code) == [code |-> code, associations |-> associations]
    IN  IF current_user \notin DOMAIN users THEN fail(404)
        ELSE IF event_id \notin DOMAIN events THEN fail(404)
        ELSE IF camp_id \notin DOMAIN camps THEN fail(404)
        ELSE IF /\ events[event_id].creator_id # current_user
                /\ ~is_event_manager_or_higher(current_user) THEN fail(403)
        ELSE IF rows = <<>> THEN fail(404)
        ELSE IF first(rows).status # "pending" THEN fail(400)
        ELSE [code |-> 200,
              associations |-> [associations EXCEPT ![<<camp_id, event_id>>] =
                                   SetFirst(rows, "status", status)]]

approve_camp(current_user, event_id, camp_id) ==
    decide_camp(current_user, event_id, camp_id, "approved")

reject_camp(current_user, event_id, camp_id) ==
    decide_camp(current_user, event_id, camp_id, "rejected")

\* camps/routes.py approve_camp and reject_camp
routes_decide_camp(current_user, event_id, camp_id, status) ==
    LET rows == associations[<<camp_id, event_id>>]
        fail(code, flash) == [code |-> code, flash |-> flash, associations |-> associations]
    IN  IF ~login_required(current_user) THEN to_login @@ [associations |-> associations]
        ELSE IF event_id \notin DOMAIN events THEN fail(404, "")
        ELSE IF camp_id \notin DOMAIN camps THEN fail(404, "")
        ELSE IF /\ events[event_id].creator_id # current_user
                /\ ~is_site_admin_or_higher(current_user) THEN fail(403, "error")
        ELSE IF rows = <<>> THEN fail(404, "")
        ELSE IF first(rows).status # "pending" THEN fail(302, "error")
        ELSE [code |-> 302, flash |-> IF status = "approved" THEN "success" ELSE "error",
              associations |-> [associations EXCEPT ![<<camp_id, event_id>>] =
                                   SetFirst(rows, "status", status)]]

routes_approve_camp(current_user, event_id, camp_id) ==
    routes_decide_camp(current_user, event_id, camp_id, "approved")

routes_reject_camp(current_user, event_id, camp_id) ==
    routes_decide_camp(current_user, event_id, camp_id, "rejected")

request_event_check_any_status(current_user, camp_id, event_id) ==
    IF current_user \notin DOMAIN users THEN 404
    ELSE IF camp_id \notin DOMAIN camps THEN 404
    ELSE IF event_id \notin DOMAIN events THEN 404
    ELSE IF /\ ~is_site_admin_or_higher(current_user)
            /\ ~is_camp_manager(current_user, camp_id) THEN 403
    ELSE IF associations[<<camp_id, event_id>>] # <<>> THEN 400
    ELSE 0

\* The checks of api/camps.py request_event before the insert: the error they
\* return, 0 when they pass
request_event_check(current_user, camp_id, event_id) ==
    IF current_user \notin DOMAIN users THEN 404
    ELSE IF camp_id \notin DOMAIN camps THEN 404
    ELSE IF event_id \notin DOMAIN events THEN 404
    ELSE IF /\ ~is_site_admin_or_higher(current_user)
            /\ ~is_camp_manager(current_user, camp_id) THEN 403
    ELSE IF events[event_id].status # "approved" THEN 400
    ELSE IF associations[<<camp_id, event_id>>] # <<>> THEN 400
    ELSE 0

uix_camp_event_dropped(camp_id, event_id) == TRUE

\* UniqueConstraint('camp_id', 'event_id'): whether the commit of a new row passes
uix_camp_event(camp_id, event_id) == associations[<<camp_id, event_id>>] = <<>>

\* db.session.add(association); db.session.commit() of request_event
request_event_commit(camp_id, event_id) ==
    IF /\ camp_id \in DOMAIN camps
       /\ event_id \in DOMAIN events
       /\ uix_camp_event(camp_id, event_id)
    THEN [code |-> 200,
          associations |-> [associations EXCEPT ![<<camp_id, event_id>>] =
                               Append(@, [status |-> "pending"])]]
    ELSE [code |-> 500, associations |-> associations]

request_event(current_user, camp_id, event_id) ==
    IF request_event_check(current_user, camp_id, event_id) # 0
    THEN [code |-> request_event_check(current_user, camp_id, event_id),
          associations |-> associations]
    ELSE request_event_commit(camp_id, event_id)

\* camps/routes.py request_event: the refusals after the permission check are
\* flashed errors with a redirect to the camp
routes_request_event_check(current_user, camp_id, event_id) ==
    LET fail(code, flash) == [code |-> code, flash |-> flash]
    IN  IF ~login_required(current_user) THEN to_login
        ELSE IF camp_id \notin DOMAIN camps THEN fail(404, "")
        ELSE IF event_id \notin DOMAIN events THEN fail(404, "")
        ELSE IF /\ ~is_site_admin_or_higher(current_user)
                /\ ~is_camp_manager(current_user, camp_id) THEN fail(403, "error")
        ELSE IF events[event_id].status # "approved" THEN fail(302, "error")
        ELSE IF associations[<<camp_id, event_id>>] # <<>> THEN fail(302, "error")
        ELSE fail(0, "")

routes_request_event_commit(camp_id, event_id) ==
    LET r == request_event_commit(camp_id, event_id)
    IN  IF r.code = 200
        THEN [code |-> 302, flash |-> "success", associations |-> r.associations]
        ELSE r

routes_request_event(current_user, camp_id, event_id) ==
    IF routes_request_event_check(current_user, camp_id, event_id).code # 0
    THEN routes_request_event_check(current_user, camp_id, event_id)
             @@ [associations |-> associations]
    ELSE routes_request_event_commit(camp_id, event_id)

\* admin.py revoke_association and cancel_association_rejection, on the row of
\* the pair: an approved association becomes rejected, a rejected one pending
admin_set_association_from_any_status(current_user, camp_id, event_id, required_role, from, to) ==
    LET rows == associations[<<camp_id, event_id>>]
        fail(code) == [code |-> code, associations |-> associations]
    IN  IF jwt_required_role(current_user, required_role) # 0
        THEN fail(jwt_required_role(current_user, required_role))
        ELSE IF rows = <<>> THEN fail(404)
        ELSE [code |-> 200,
              associations |-> [associations EXCEPT ![<<camp_id, event_id>>] =
                                   SetFirst(rows, "status", to)]]

\* api/admin.py revoke_association and cancel_association_rejection
admin_set_association(current_user, camp_id, event_id, required_role, from, to) ==
    LET rows == associations[<<camp_id, event_id>>]
        fail(code) == [code |-> code, associations |-> associations]
    IN  IF jwt_required_role(current_user, required_role) # 0
        THEN fail(jwt_required_role(current_user, required_role))
        ELSE IF rows = <<>> THEN fail(404)
        ELSE IF first(rows).status # from THEN fail(400)
        ELSE [code |-> 200,
              associations |-> [associations EXCEPT ![<<camp_id, event_id>>] =
                                   SetFirst(rows, "status", to)]]

revoke_association(current_user, camp_id, event_id) ==
    admin_set_association(current_user, camp_id, event_id, "site admin",
                          "approved", "rejected")

cancel_association_rejection(current_user, camp_id, event_id) ==
    admin_set_association(current_user, camp_id, event_id, "event manager",
                          "rejected", "pending")

-----------------------------------------------------------------------------
(* Actions: one per handler *)

CreateCamp ==
    \E u \in UserIds, data \in CampData, via \in Via :
        LET r == IF via = "api" THEN create_camp(u, data) ELSE routes_create_camp(u, data)
        IN  /\ Cardinality(DOMAIN camps) < MaxCamps
            /\ camps' = r.camps
            /\ camp_members' = r.camp_members
            /\ last' = Request("create_camp", via, u, NoId, NoId, NoId,
                               data.member_approval_mode, r)
            /\ UNCHANGED <<users, events, associations, inflight, oauth_providers, user_id_seq>>

UpdateCamp ==
    \E u \in UserIds, c \in CampIds, data \in CampData :
        LET r == update_camp(u, c, data)
        IN  /\ camps' = r.camps
            /\ last' = Request("update_camp", "api", u, c, NoId, NoId,
                               data.member_approval_mode, r)
            /\ UNCHANGED <<users, camp_members, events, associations, inflight, oauth_providers, user_id_seq>>

RequestMembership ==
    \E u \in UserIds, c \in CampIds, via \in Via :
        LET r == IF via = "api" THEN request_membership(u, c)
                 ELSE routes_request_membership(u, c)
        IN  /\ camp_members' = r.camp_members
            /\ last' = Request("request_membership", via, u, c, NoId, NoId, "", r)
            /\ UNCHANGED <<users, camps, events, associations, inflight, oauth_providers, user_id_seq>>

ApproveMember ==
    \E cu \in UserIds, c \in CampIds, u \in UserIds :
        LET r == approve_member(cu, c, u)
        IN  /\ camp_members' = r.camp_members
            /\ last' = Request("approve_member", "api", cu, c, u, NoId, "", r)
            /\ UNCHANGED <<users, camps, events, associations, inflight, oauth_providers, user_id_seq>>

RejectMember ==
    \E cu \in UserIds, c \in CampIds, u \in UserIds :
        LET r == reject_member(cu, c, u)
        IN  /\ camp_members' = r.camp_members
            /\ last' = Request("reject_member", "api", cu, c, u, NoId, "", r)
            /\ UNCHANGED <<users, camps, events, associations, inflight, oauth_providers, user_id_seq>>

PromoteMember ==
    \E cu \in UserIds, c \in CampIds, u \in UserIds, via \in Via :
        LET r == IF via = "api" THEN promote_member(cu, c, u)
                 ELSE routes_promote_member(cu, c, u)
        IN  /\ camp_members' = r.camp_members
            /\ last' = Request("promote_member", via, cu, c, u, NoId, "", r)
            /\ UNCHANGED <<users, camps, events, associations, inflight, oauth_providers, user_id_seq>>

DemoteManager ==
    \E cu \in UserIds, c \in CampIds, u \in UserIds, via \in Via :
        LET r == IF via = "api" THEN demote_manager(cu, c, u)
                 ELSE routes_demote_manager(cu, c, u)
        IN  /\ camp_members' = r.camp_members
            /\ last' = Request("demote_manager", via, cu, c, u, NoId, "", r)
            /\ UNCHANGED <<users, camps, events, associations, inflight, oauth_providers, user_id_seq>>

DeleteOwnAccount ==
    \E u \in UserIds :
        LET r == delete_own_account(u)
        IN  /\ users' = r.users
            /\ camp_members' = r.camp_members
            /\ oauth_providers' = r.oauth_providers
            /\ last' = Request("delete_own_account", "api", u, NoId, NoId, NoId, "", r)
            /\ UNCHANGED <<camps, events, associations, inflight, user_id_seq>>

ChangeUserRole ==
    \E cu \in UserIds, u \in UserIds, new_role \in RoleData, via \in Via :
        LET r == IF via = "api" THEN change_user_role(cu, u, new_role)
                 ELSE routes_change_user_role(cu, u, new_role)
        IN  /\ users' = r.users
            /\ last' = Request("change_user_role", via, cu, NoId, u, NoId, new_role, r)
            /\ UNCHANGED <<camps, camp_members, events, associations, inflight, oauth_providers, user_id_seq>>

SuspendUser ==
    \E cu \in UserIds, u \in UserIds :
        LET r == suspend_user(cu, u)
        IN  /\ users' = r.users
            /\ last' = Request("suspend_user", "api", cu, NoId, u, NoId, "", r)
            /\ UNCHANGED <<camps, camp_members, events, associations, inflight,
                           oauth_providers, user_id_seq>>

ReactivateUser ==
    \E cu \in UserIds, u \in UserIds :
        LET r == reactivate_user(cu, u)
        IN  /\ users' = r.users
            /\ last' = Request("reactivate_user", "api", cu, NoId, u, NoId, "", r)
            /\ UNCHANGED <<camps, camp_members, events, associations, inflight,
                           oauth_providers, user_id_seq>>

Login ==
    \E data \in [email : LoginEmail, password : LoginPassword], via \in Via :
        LET r == IF via = "api" THEN login(data) ELSE email_login(data)
        IN  /\ last' = Request("login", via, NoId, NoId, r.user, NoId, data, r)
            /\ UNCHANGED <<users, camps, camp_members, events, associations, inflight,
                           oauth_providers, user_id_seq>>

Register ==
    \E data \in RegisterData, via \in Via :
        LET r == IF via = "api" THEN register(data) ELSE routes_register(data)
        IN  /\ r.user_id_seq <= MaxUsers + 1
            /\ users' = r.users
            /\ user_id_seq' = r.user_id_seq
            /\ last' = Request("register", via, NoId, NoId, NoId, NoId, data, r)
            /\ UNCHANGED <<camps, camp_members, events, associations, inflight,
                           oauth_providers>>

VerifyEmail ==
    \E token \in UserIds, fresh \in BOOLEAN, via \in Via :
        LET r == verify_email(token, fresh)
        IN  /\ users' = r.users
            /\ last' = Request("verify_email", via, NoId, NoId, token, NoId, fresh,
                               IF via = "api" THEN r
                               ELSE [r EXCEPT !.code = 302])
            /\ UNCHANGED <<camps, camp_members, events, associations, inflight,
                           oauth_providers, user_id_seq>>

CreateUser ==
    \E cu \in UserIds, data \in CreateUserData :
        LET r == create_user(cu, data)
        IN  /\ r.user_id_seq <= MaxUsers + 1
            /\ users' = r.users
            /\ user_id_seq' = r.user_id_seq
            /\ last' = Request("create_user", "api", cu, NoId, NoId, NoId, data, r)
            /\ UNCHANGED <<camps, camp_members, events, associations, inflight,
                           oauth_providers>>

RequestEmailChange ==
    \E cu \in UserIds, data \in NewEmail, via \in Via :
        LET r == IF via = "api" THEN request_email_change(cu, data)
                 ELSE change_email(cu, data)
        IN  /\ users' = r.users
            /\ last' = Request("request_email_change", via, cu, NoId, NoId, NoId, data, r)
            /\ UNCHANGED <<camps, camp_members, events, associations, inflight,
                           oauth_providers, user_id_seq>>

VerifyEmailChange ==
    \E token \in UserIds, fresh \in BOOLEAN, via \in Via :
        LET r == IF via = "api" THEN verify_email_change(token, fresh)
                 ELSE routes_verify_email_change(token, fresh)
        IN  /\ users' = r.users
            /\ last' = Request("verify_email_change", via, NoId, NoId, token, NoId,
                               fresh, r)
            /\ UNCHANGED <<camps, camp_members, events, associations, inflight,
                           oauth_providers, user_id_seq>>

OAuthCallback ==
    \E provider \in OAuthProviderName, token \in BOOLEAN, userinfo \in UserInfo :
        LET r == oauth_callback(provider, token, userinfo)
        IN  /\ r.user_id_seq <= MaxUsers + 1
            /\ users' = r.users
            /\ oauth_providers' = r.oauth_providers
            /\ user_id_seq' = r.user_id_seq
            /\ last' = Request("oauth_callback", "api", NoId, NoId, r.user, NoId,
                               [provider |-> provider, token |-> token,
                                email |-> userinfo.email, sub |-> userinfo.sub], r)
            /\ UNCHANGED <<camps, camp_members, events, associations, inflight>>


CreateEvent ==
    \E u \in UserIds, data \in EventData, via \in Via :
        LET r == IF via = "api" THEN create_event(u, data) ELSE routes_create_event(u, data)
        IN  /\ Cardinality(DOMAIN events) < MaxEvents
            /\ events' = r.events
            /\ last' = Request("create_event", via, u, NoId, NoId, NoId, data.title, r)
            /\ UNCHANGED <<users, camps, camp_members, associations, inflight, oauth_providers, user_id_seq>>

\* The callers of a route that needs no login: the users and nobody
Callers == UserIds \cup {NoId}

ListEvents ==
    \E u \in Callers :
        /\ last' = Request("list_events", "api", u, NoId, NoId, NoId, "", list_events(u))
        /\ UNCHANGED <<users, camps, camp_members, events, associations, inflight,
                       oauth_providers, user_id_seq>>

GetEvent ==
    \E u \in Callers, e \in EventIds, via \in Via :
        LET r == IF via = "api" THEN get_event(u, e) ELSE view_event(u, e)
        IN  /\ last' = Request("get_event", via, u, NoId, NoId, e, "", r)
            /\ UNCHANGED <<users, camps, camp_members, events, associations, inflight,
                           oauth_providers, user_id_seq>>

ApproveEvent ==
    \E u \in UserIds, e \in EventIds, via \in Via :
        LET r == IF via = "api" THEN approve_event(u, e) ELSE routes_approve_event(u, e)
        IN  /\ events' = r.events
            /\ last' = Request("approve_event", via, u, NoId, NoId, e, "", r)
            /\ UNCHANGED <<users, camps, camp_members, associations, inflight, oauth_providers, user_id_seq>>

RejectEvent ==
    \E u \in UserIds, e \in EventIds, via \in Via :
        LET r == IF via = "api" THEN reject_event(u, e) ELSE routes_reject_event(u, e)
        IN  /\ events' = r.events
            /\ last' = Request("reject_event", via, u, NoId, NoId, e, "", r)
            /\ UNCHANGED <<users, camps, camp_members, associations, inflight, oauth_providers, user_id_seq>>

CancelEvent ==
    \E u \in UserIds, e \in EventIds, via \in Via :
        LET r == IF via = "api" THEN cancel_event(u, e) ELSE routes_cancel_event(u, e)
        IN  /\ events' = r.events
            /\ last' = Request("cancel_event", via, u, NoId, NoId, e, "", r)
            /\ UNCHANGED <<users, camps, camp_members, associations, inflight, oauth_providers, user_id_seq>>

ChangeEventStatus ==
    \E u \in UserIds, e \in EventIds, new_status \in StatusData :
        LET r == change_event_status(u, e, new_status)
        IN  /\ events' = r.events
            /\ last' = Request("change_event_status", "api", u, NoId, NoId, e, new_status, r)
            /\ UNCHANGED <<users, camps, camp_members, associations, inflight, oauth_providers, user_id_seq>>

RevokeAssociation ==
    \E u \in UserIds, c \in CampIds, e \in EventIds :
        LET r == revoke_association(u, c, e)
        IN  /\ associations' = r.associations
            /\ last' = Request("revoke_association", "api", u, c, NoId, e, "", r)
            /\ UNCHANGED <<users, camps, camp_members, events, inflight,
                           oauth_providers, user_id_seq>>

CancelAssociationRejection ==
    \E u \in UserIds, c \in CampIds, e \in EventIds :
        LET r == cancel_association_rejection(u, c, e)
        IN  /\ associations' = r.associations
            /\ last' = Request("cancel_association_rejection", "api", u, c, NoId, e, "", r)
            /\ UNCHANGED <<users, camps, camp_members, events, inflight,
                           oauth_providers, user_id_seq>>

RequestEvent ==
    \E u \in UserIds, c \in CampIds, e \in EventIds, via \in Via :
        LET r == IF via = "api" THEN request_event(u, c, e) ELSE routes_request_event(u, c, e)
        IN  /\ associations' = r.associations
            /\ last' = Request("request_event", via, u, c, NoId, e, "", r)
            /\ UNCHANGED <<users, camps, camp_members, events, inflight, oauth_providers, user_id_seq>>

ApproveCamp ==
    \E u \in UserIds, e \in EventIds, c \in CampIds, via \in Via :
        LET r == IF via = "api" THEN approve_camp(u, e, c) ELSE routes_approve_camp(u, e, c)
        IN  /\ associations' = r.associations
            /\ last' = Request("approve_camp", via, u, c, NoId, e, "", r)
            /\ UNCHANGED <<users, camps, camp_members, events, inflight, oauth_providers, user_id_seq>>

RejectCamp ==
    \E u \in UserIds, e \in EventIds, c \in CampIds, via \in Via :
        LET r == IF via = "api" THEN reject_camp(u, e, c) ELSE routes_reject_camp(u, e, c)
        IN  /\ associations' = r.associations
            /\ last' = Request("reject_camp", via, u, c, NoId, e, "", r)
            /\ UNCHANGED <<users, camps, camp_members, events, inflight, oauth_providers, user_id_seq>>

-----------------------------------------------------------------------------
(* The database after the accounts were set up: one global admin, the other *)
(* users members, no camp and no event yet.                                 *)

NoRequest == Request("none", "", NoId, NoId, NoId, NoId, "", [code |-> 0])

\* The tables before any camp or event exists
InitTables ==
    /\ camps = <<>>
    /\ camp_members = [p \in CampIds \X UserIds |-> <<>>]
    /\ events = <<>>
    /\ associations = [p \in CampIds \X EventIds |-> <<>>]
    /\ inflight = <<>>
    /\ last = NoRequest
    /\ oauth_providers = {}

Init ==
    /\ users = [u \in UserIds |-> NewUser(u, IF u = 1 THEN "global admin" ELSE "member")]
    /\ user_id_seq = MaxUsers + 1
    /\ InitTables

\* Camps and their members, every handler atomic
NextCamp ==
    \/ CreateCamp
    \/ UpdateCamp
    \/ RequestMembership
    \/ ApproveMember
    \/ RejectMember
    \/ PromoteMember
    \/ DemoteManager
    \/ DeleteOwnAccount

SpecCamp == Init /\ [][NextCamp]_vars

-----------------------------------------------------------------------------
(* Events and camp-event associations.  The roles are those an administrator  *)
(* has assigned before: an admin, an event manager, and further users of any  *)
(* of the lower roles; camps are created with the default approval mode.      *)

InitEvent ==
    /\ users \in {[u \in UserIds |-> NewUser(u, f[u])] : f \in
                   {f \in [UserIds -> UserRole] :
                      /\ f[1] \in {"global admin", "site admin"}
                      /\ MaxUsers >= 2 => f[2] = "event manager"
                      /\ \A u \in UserIds \ {1, 2} :
                             f[u] \in {"event manager", "camp manager", "member"}}}
    /\ user_id_seq = MaxUsers + 1
    /\ InitTables

NextEvent ==
    \/ CreateCamp /\ last'.arg = "manager_only"
    \/ CreateEvent
    \/ ApproveEvent
    \/ RejectEvent
    \/ CancelEvent
    \/ ChangeEventStatus
    \/ RequestEvent
    \/ ApproveCamp
    \/ RejectCamp

SpecEvent == InitEvent /\ [][NextEvent]_vars

-----------------------------------------------------------------------------
(* The events and who is shown them *)

NextView ==
    \/ CreateEvent
    \/ ApproveEvent
    \/ RejectEvent
    \/ CancelEvent
    \/ ListEvents
    \/ GetEvent

SpecView == InitEvent /\ [][NextView]_vars

-----------------------------------------------------------------------------
(* Every handler that writes a status column, with a global admin and plain *)
(* members.                                                                 *)

NextStatus ==
    \/ CreateCamp /\ last'.arg = "manager_only"
    \/ RequestMembership
    \/ ApproveMember
    \/ RejectMember
    \/ CreateEvent
    \/ ApproveEvent
    \/ RejectEvent
    \/ CancelEvent
    \/ ChangeEventStatus
    \/ RequestEvent
    \/ ApproveCamp
    \/ RejectCamp
    \/ RevokeAssociation
    \/ CancelAssociationRejection

InitStatus ==
    /\ users = [u \in 1..(MaxUsers - 1) |->
                  NewUser(u, IF u = 1 THEN "global admin" ELSE "member")]
    /\ user_id_seq = MaxUsers
    /\ InitTables

SpecStatus == InitStatus /\ [][NextStatus]_vars

-----------------------------------------------------------------------------
(* Interleaved request_membership requests: each request runs its existence *)
(* check and its commit as two steps, and other requests run in between.    *)

BeginRequestMembership ==
    \E u \in UserIds, c \in CampIds, via \in Via :
        LET r == IF via = "api" THEN [code |-> request_membership_check(u, c)]
                 ELSE routes_request_membership_check(u, c)
        IN  /\ Len(inflight) < MaxInflight
            /\ IF r.code = 0
               THEN /\ inflight' = Append(inflight, [op |-> "request_membership", via |-> via,
                                                     caller |-> u, camp |-> c, event |-> NoId])
                    /\ UNCHANGED last
               ELSE /\ last' = Request("request_membership", via, u, c, NoId, NoId, "", r)
                    /\ UNCHANGED inflight
            /\ UNCHANGED <<users, camps, camp_members, events, associations,
                           oauth_providers, user_id_seq>>

\* The sequence without its i-th element
Remove(seq, i) == [j \in 1..(Len(seq) - 1) |-> IF j < i THEN seq[j] ELSE seq[j + 1]]

CommitRequestMembership ==
    \E i \in 1..Len(inflight) :
        LET req == inflight[i]
            r == IF req.via = "api" THEN request_membership_commit(req.caller, req.camp)
                 ELSE routes_request_membership_commit(req.caller, req.camp)
        IN  /\ req.op = "request_membership"
            /\ camp_members' = r.camp_members
            /\ inflight' = Remove(inflight, i)
            /\ last' = Request("request_membership", req.via, req.caller, req.camp, NoId,
                               NoId, "", r)
            /\ UNCHANGED <<users, camps, events, associations, oauth_providers, user_id_seq>>

NextMemberRace ==
    \/ CreateCamp
    \/ BeginRequestMembership
    \/ CommitRequestMembership
    \/ ApproveMember
    \/ RejectMember
    \/ DeleteOwnAccount

SpecMemberRace == Init /\ [][NextMemberRace]_vars

-----------------------------------------------------------------------------
(* Interleaved request_event requests, on the events an administrator has    *)
(* created and decided.                                                      *)

BeginRequestEvent ==
    \E u \in UserIds, c \in CampIds, e \in EventIds, via \in Via :
        LET r == IF via = "api" THEN [code |-> request_event_check(u, c, e)]
                 ELSE routes_request_event_check(u, c, e)
        IN  /\ Len(inflight) < MaxInflight
            /\ IF r.code = 0
               THEN /\ inflight' = Append(inflight, [op |-> "request_event", via |-> via,
                                                     caller |-> u, camp |-> c, event |-> e])
                    /\ UNCHANGED last
               ELSE /\ last' = Request("request_event", via, u, c, NoId, e, "", r)
                    /\ UNCHANGED inflight
            /\ UNCHANGED <<users, camps, camp_members, events, associations,
                           oauth_providers, user_id_seq>>

CommitRequestEvent ==
    \E i \in 1..Len(inflight) :
        LET req == inflight[i]
            r == IF req.via = "api" THEN request_event_commit(req.camp, req.event)
                 ELSE routes_request_event_commit(req.camp, req.event)
        IN  /\ req.op = "request_event"
            /\ associations' = r.associations
            /\ inflight' = Remove(inflight, i)
            /\ last' = Request("request_event", req.via, req.caller, req.camp, NoId,
                               req.event, "", r)
            /\ UNCHANGED <<users, camps, camp_members, events, oauth_providers, user_id_seq>>

NextAssocRace ==
    \/ CreateCamp /\ last'.arg = "manager_only"
    \/ CreateEvent
    \/ ApproveEvent
    \/ BeginRequestEvent
    \/ CommitRequestEvent
    \/ ApproveCamp
    \/ RejectCamp

SpecAssocRace == InitEvent /\ [][NextAssocRace]_vars

-----------------------------------------------------------------------------
(* Accounts: suspension, reactivation and login.  A global admin and further *)
(* registered users, one of them possibly not verified yet; one more account *)
(* can be created by an OAuth login.                                         *)

InitAuth ==
    /\ users \in {[u \in 1..(MaxUsers - 1) |->
                     IF u = 1 THEN NewUser(u, "global admin")
                     ELSE User("member", InitEmail(u), v,
                               generate_password_hash("password"))] :
                  v \in BOOLEAN}
    /\ user_id_seq = MaxUsers
    /\ InitTables

NextAuth ==
    \/ SuspendUser
    \/ ReactivateUser
    \/ Login
    \/ OAuthCallback
    \/ ChangeUserRole
    \/ DeleteOwnAccount

SpecAuth == InitAuth /\ [][NextAuth]_vars

\* Signing up and signing in: registration, verification of the address, OAuth
\* sign-in and login with a password
NextAccount ==
    \/ Register
    \/ VerifyEmail
    \/ Login
    \/ OAuthCallback

SpecAccount == InitAuth /\ [][NextAccount]_vars

\* The addresses of the accounts: every handler that writes users.email
NextEmail ==
    \/ Register
    \/ CreateUser
    \/ OAuthCallback
    \/ RequestEmailChange
    \/ VerifyEmailChange

\* Two registered accounts with verified addresses
InitAccounts ==
    /\ users = [u \in 1..(MaxUsers - 1) |->
                   NewUser(u, IF u = 1 THEN "global admin" ELSE "member")]
    /\ user_id_seq = MaxUsers
    /\ InitTables

SpecEmail == InitAccounts /\ [][NextEmail]_vars

\* Two oauth_callback requests interleave: each runs the queries of
\* link_or_create_user, and writes after the other may have written
BeginOAuthCallback ==
    \E provider \in OAuthProviderName, userinfo \in UserInfo :
        /\ Len(inflight) < MaxInflight
        /\ ~oauth_callback_check(provider, TRUE, userinfo)
        /\ inflight' = Append(inflight,
               [op |-> "oauth_callback", provider |-> provider, userinfo |-> userinfo,
                q |-> link_or_create_user_query(userinfo.email, provider, userinfo.sub)])
        /\ UNCHANGED <<users, camps, camp_members, events, associations, last,
                       oauth_providers, user_id_seq>>

CommitOAuthCallback ==
    \E i \in 1..Len(inflight) :
        LET req == inflight[i]
            r == [code |-> 302] @@
                 link_or_create_user_commit(req.q, req.userinfo.email, req.provider,
                                            req.userinfo.sub)
        IN  /\ req.op = "oauth_callback"
            /\ r.user_id_seq <= MaxUsers + 1
            /\ users' = r.users
            /\ oauth_providers' = r.oauth_providers
            /\ user_id_seq' = r.user_id_seq
            /\ inflight' = Remove(inflight, i)
            /\ last' = Request("oauth_callback", "api", NoId, NoId, r.user, NoId,
                               [provider |-> req.provider, token |-> TRUE,
                                email |-> req.userinfo.email, sub |-> req.userinfo.sub], r)
            /\ UNCHANGED <<camps, camp_members, events, associations>>

\* The lifecycle of an association: a camp asks to join an approved event, and
\* the request is approved, rejected, revoked and reopened
NextAssoc ==
    \/ CreateCamp /\ last'.arg = "manager_only"
    \/ CreateEvent
    \/ ApproveEvent
    \/ RequestEvent
    \/ ApproveCamp
    \/ RejectCamp
    \/ RevokeAssociation
    \/ CancelAssociationRejection

SpecAssoc == InitEvent /\ [][NextAssoc]_vars

\* OAuth sign-in, one request at a time and two interleaved
NextOAuth ==
    \/ OAuthCallback
    \/ BeginOAuthCallback
    \/ CommitOAuthCallback

SpecOAuth == InitAuth /\ [][NextOAuth]_vars

\* The role checks alone: the values a role column or a role argument can carry,
\* the five roles and strings that are none of them
RoleValue == UserRole \cup {"", "admin", "Member", "GLOBAL_ADMIN"}

\* user.has_role_or_higher(role) for a user with the role user_role
UserHasRoleOrHigher ==
    \E user_role \in RoleValue, role \in RoleValue :
        /\ last' = Request("User.has_role_or_higher", "", NoId, NoId, NoId, NoId,
                           <<user_role, role>>,
                           [code |-> 0, data |-> {User_has_role_or_higher(user_role, role)}])
        /\ UNCHANGED <<users, camps, camp_members, events, associations, inflight,
                       oauth_providers, user_id_seq>>

\* has_role_or_higher(user, required_role) of the API for a user with the role
\* user_role
ApiHasRoleOrHigher ==
    \E user_role \in RoleValue, required_role \in RoleValue :
        /\ last' = Request("has_role_or_higher", "", NoId, NoId, NoId, NoId,
                           <<user_role, required_role>>,
                           [code |-> 0, data |-> {has_role_or_higher(user_role, required_role)}])
        /\ UNCHANGED <<users, camps, camp_members, events, associations, inflight,
                       oauth_providers, user_id_seq>>

NextRole ==
    \/ UserHasRoleOrHigher
    \/ ApiHasRoleOrHigher

SpecRole == Init /\ [][NextRole]_vars

-----------------------------------------------------------------------------
(* The claims' vocabulary, stated on the tables and not through the handlers' *)
(* helpers.                                                                   *)

SiteAdminOrHigher(u) ==
    u \in DOMAIN users /\ users[u].role \in {"global admin", "site admin"}

EventManagerOrHigher(u) ==
    u \in DOMAIN users /\ users[u].role \in {"global admin", "site admin", "event manager"}

\* u has a membership row of camp c with this status (and role)
HasMembership(u, c, status) ==
    \E i \in 1..Len(camp_members[<<c, u>>]) : camp_members[<<c, u>>][i].status = status

ApprovedManager(u, c) ==
    \E i \in 1..Len(camp_members[<<c, u>>]) :
        camp_members[<<c, u>>][i] = [status |-> "approved", role |-> "manager"]

EventCreator(u, e) == e \in DOMAIN events /\ events[e].creator_id = u

-----------------------------------------------------------------------------
(* C1. Every existing camp has at least one membership row with status     *)
(* approved and role manager, in every state reached by create_camp,       *)
(* request_membership, approve_member, reject_member, promote_member,      *)
(* demote_manager and delete_own_account.                                  *)

C1_EveryCampKeepsAManager ==
    \A c \in DOMAIN camps : manager_count(c) >= 1

-----------------------------------------------------------------------------
(* C2. A pending camp-event association is approved or rejected only by the *)
(* creator of the event or by a site admin or higher; every other caller of *)
(* approve_camp or reject_camp, in the JSON API and in the server-rendered  *)
(* handlers alike, receives 403 and the association is unchanged.           *)

C2_OnlyCreatorOrAdminDecidesCamp ==
    [][last'.op \in {"approve_camp", "reject_camp"} =>
          LET cu == last'.caller
              e == last'.event
              c == last'.camp
              allowed == EventCreator(cu, e) \/ SiteAdminOrHigher(cu)
          IN  /\ associations' # associations => allowed
              /\ (/\ cu \in DOMAIN users
                  /\ e \in DOMAIN events
                  /\ c \in DOMAIN camps
                  /\ associations[<<c, e>>] # <<>>
                  /\ associations[<<c, e>>][1].status = "pending"
                  /\ ~allowed) => (last'.code = 403 /\ associations' = associations)]_vars

\* C3: while a user is suspended (is_active is FALSE, which only suspend_user sets
\* and only reactivate_user resets), no login and no OAuth callback issues tokens
\* for that user, and no request deletes the user's row or the rows that belong
\* to it.
C3_SuspendedUserCannotLogIn ==
    [][/\ (/\ last'.op \in {"login", "oauth_callback"}
            /\ last'.user \in DOMAIN users) => users[last'.user].is_active
       /\ \A u \in DOMAIN users :
              ~users[u].is_active =>
                  /\ u \in DOMAIN users'
                  /\ {o \in oauth_providers : o.user_id = u} \subseteq oauth_providers'
                  /\ \A c \in CampIds :
                         Len(camp_members'[<<c, u>>]) >= Len(camp_members[<<c, u>>])]_vars

\* C4: approve_member and reject_member change a membership only when it is
\* pending and the caller is a site admin or higher, an approved manager of a
\* manager_only camp, or an approved member of an all_members camp.  A caller
\* below site admin whose own membership of the camp is pending, rejected or
\* missing gets 403, a non-pending target gives an entitled caller 400, and both
\* leave the memberships as they were.
C4_OnlyEntitledCallerDecidesMember ==
    [][last'.op \in {"approve_member", "reject_member"} =>
          LET cu == last'.caller  c == last'.camp  u == last'.user
              found == cu \in DOMAIN users /\ c \in DOMAIN camps /\ u \in DOMAIN users
              mode == camps[c].member_approval_mode
              entitled ==
                  \/ SiteAdminOrHigher(cu)
                  \/ mode = "manager_only" /\ ApprovedManager(cu, c)
                  \/ mode = "all_members" /\ HasMembership(cu, c, "approved")
          IN  /\ camp_members' # camp_members =>
                     found /\ entitled /\ HasMembership(u, c, "pending")
              /\ (/\ found
                  /\ ~SiteAdminOrHigher(cu)
                  /\ ~HasMembership(cu, c, "approved")) =>
                     (last'.code = 403 /\ camp_members' = camp_members)
              /\ (/\ found
                  /\ entitled
                  /\ camp_members[<<c, u>>] # <<>>
                  /\ ~HasMembership(u, c, "pending")) =>
                     (last'.code = 400 /\ camp_members' = camp_members)]_vars

\* A step that answers a request (a step that only admits a request to the
\* requests in flight answers none)
Answers(op) == last'.op = op /\ Len(inflight') <= Len(inflight)

\* The answer in last' is a refusal: an error status from the API; from the
\* server-rendered handler an error status or a redirect whose flashed message
\* is not the success message
Refused ==
    IF last'.via = "api" THEN last'.code >= 400
    ELSE last'.code >= 400 \/ (last'.code = 302 /\ last'.flash \in {"info", "error"})

C6_OneAssociationPerCampAndEvent ==
    /\ [](\A c \in CampIds, e \in EventIds : Len(associations[<<c, e>>]) <= 1)
    /\ [][(/\ Answers("request_event")
           /\ last'.camp \in CampIds /\ last'.event \in EventIds
           /\ associations[<<last'.camp, last'.event>>] # <<>>) =>
              (Refused /\ associations' = associations)]_vars

\* Of two interleaved request_event requests for one pair the second to commit is
\* refused, and the pair has the one row of the first
C6_Witness ==
    /\ last.op = "request_event"
    /\ last.code = 500
    /\ Len(associations[<<last.camp, last.event>>]) = 1

\* C7: in every reachable state each event's status is pending, approved,
\* rejected or cancelled and each membership's and each association's status is
\* pending, approved or rejected; change_event_status, called by a site admin or
\* higher for an existing event with any other value, answers 400 and leaves the
\* event's status as it was.
C7_StatusesStayInTheirEnums ==
    /\ [](/\ \A e \in DOMAIN events : events[e].status \in EventStatus
          /\ \A p \in DOMAIN camp_members : \A i \in 1..Len(camp_members[p]) :
                 camp_members[p][i].status \in AssociationStatus
          /\ \A p \in DOMAIN associations : \A i \in 1..Len(associations[p]) :
                 associations[p][i].status \in AssociationStatus)
    /\ [][(/\ last'.op = "change_event_status"
           /\ SiteAdminOrHigher(last'.caller)
           /\ last'.event \in DOMAIN events
           /\ strip(last'.arg) \notin EventStatus) =>
              (last'.code = 400 /\ events' = events)]_vars

\* A site admin's change_event_status with an unknown value was answered 400
\* while memberships and associations of every status exist
C7_Witness ==
    /\ last.op = "change_event_status"
    /\ last.arg = "archived"
    /\ last.code = 400
    /\ SiteAdminOrHigher(last.caller)
    /\ last.event \in DOMAIN events
    /\ \E p \in DOMAIN camp_members : HasMembership(p[2], p[1], "rejected")
    /\ \E p \in DOMAIN associations : associations[p] # <<>>

\* The caller of the request answered in last' is registered and, for the
\* server-rendered handlers, logged in
Authenticated ==
    /\ last'.caller \in DOMAIN users
    /\ last'.via = "web" => users[last'.caller].is_active

\* An event leaves pending for approved or rejected only in a request of a site
\* admin or global admin, and approve_event and reject_event answer a caller of a
\* lower role with 403 and leave the events as they were
C8_OnlyAdminsDecide ==
    /\ \A e \in DOMAIN events :
           (events[e].status = "pending" /\ events'[e].status \in {"approved", "rejected"})
               => SiteAdminOrHigher(last'.caller)
    /\ (/\ last'.op \in {"approve_event", "reject_event"}
        /\ Authenticated
        /\ ~SiteAdminOrHigher(last'.caller)) => (last'.code = 403 /\ events' = events)

\* approve_event or reject_event of a site admin or higher on an event that is
\* not pending
C8_NotPending ==
    /\ last'.op \in {"approve_event", "reject_event"}
    /\ Authenticated
    /\ SiteAdminOrHigher(last'.caller)
    /\ last'.event \in DOMAIN events
    /\ events[last'.event].status # "pending"

\* C8 as stated: an event's status changes from pending to approved or rejected
\* only through a request of a site admin or global admin; a caller with a lower
\* role receives 403, approve_event or reject_event on an event that is not
\* pending returns 400, and in both cases the event's status is unchanged.
C8_EventDecisionByAdminsElse403Or400 ==
    [][/\ C8_OnlyAdminsDecide
       /\ C8_NotPending => (last'.code = 400 /\ events' = events)]_vars

\* C8, amended: as C8, but on an event that is not pending only the API handlers
\* return 400; the server-rendered handlers redirect (302) with a flashed error.
\* The event's status is unchanged in every error case.
C8_EventDecisionByAdminsElse403Or400OrRedirect ==
    [][/\ C8_OnlyAdminsDecide
       /\ C8_NotPending =>
              /\ events' = events
              /\ IF last'.via = "api" THEN last'.code = 400
                 ELSE last'.code = 302 /\ last'.flash = "error"]_vars

\* A site admin's server-rendered approve_event on an approved event was answered
\* with the redirect and the flashed error
C8_Witness ==
    /\ last.op = "approve_event"
    /\ last.via = "web"
    /\ last.code = 302 /\ last.flash = "error"
    /\ SiteAdminOrHigher(last.caller)
    /\ last.event \in DOMAIN events
    /\ events[last.event].status = "approved"

\* C9: create_event creates an event only for a caller who is event manager or
\* higher, and the event it creates is pending and has the caller as its creator;
\* a camp manager or member gets 403 and no event is created.
C9_OnlyEventManagersCreateEvents ==
    [][last'.op = "create_event" =>
          /\ events' # events =>
                 /\ EventManagerOrHigher(last'.caller)
                 /\ \E e \in DOMAIN events' \ DOMAIN events :
                        /\ events' = events @@ (e :> events'[e])
                        /\ events'[e] = [creator_id |-> last'.caller, status |-> "pending"]
          /\ (/\ Authenticated
              /\ users[last'.caller].role \in {"camp manager", "member"}) =>
                 (last'.code = 403 /\ events' = events)]_vars

\* An event manager has created an event, which is pending and theirs
C9_Witness ==
    /\ last.op = "create_event"
    /\ last.caller \in DOMAIN users
    /\ users[last.caller].role = "event manager"
    /\ \E e \in DOMAIN events : events[e] = [creator_id |-> last.caller, status |-> "pending"]

\* C10: request_event creates an association, with status pending, only when the
\* caller is an approved manager of the camp or a site admin or higher and the
\* event is approved; for an event that is pending, rejected or cancelled it is
\* refused, for a caller without that permission it answers 403, and both create
\* nothing.
C10_RequestEventNeedsManagerAndApprovedEvent ==
    [][last'.op = "request_event" =>
          LET cu == last'.caller  c == last'.camp  e == last'.event
              found == c \in DOMAIN camps /\ e \in DOMAIN events
              permitted == ApprovedManager(cu, c) \/ SiteAdminOrHigher(cu)
          IN  /\ associations' # associations =>
                     /\ found /\ permitted /\ events[e].status = "approved"
                     /\ associations' = [associations EXCEPT ![<<c, e>>] =
                                             <<[status |-> "pending"]>>]
              /\ (Authenticated /\ found /\ permitted /\ events[e].status # "approved") =>
                     (Refused /\ associations' = associations)
              /\ (Authenticated /\ found /\ ~permitted) =>
                     (last'.code = 403 /\ associations' = associations)]_vars

\* A camp's approved manager below site admin has requested an approved event,
\* and the association is pending
C10_Witness ==
    /\ last.op = "request_event"
    /\ last.camp \in DOMAIN camps /\ last.event \in DOMAIN events
    /\ ApprovedManager(last.caller, last.camp)
    /\ ~SiteAdminOrHigher(last.caller)
    /\ events[last.event].status = "approved"
    /\ associations[<<last.camp, last.event>>] = <<[status |-> "pending"]>>

\* C11: an event that is not approved is disclosed only to a site admin or
\* higher and to its creator: get_event answers every other caller, anonymous
\* callers and event managers who did not create it included, with 403, and
\* list_events shows a caller who is neither only approved events.
C11_UnapprovedEventsAreNotDisclosed ==
    [][LET cu == last'.caller
           entitled(e) == SiteAdminOrHigher(cu) \/ EventCreator(cu, e)
       IN  /\ (/\ last'.op = "get_event"
               /\ last'.event \in DOMAIN events
               /\ events[last'.event].status # "approved"
               /\ ~entitled(last'.event)) => (last'.code = 403 /\ last'.data = {})
           /\ last'.op = "list_events" =>
                  \A e \in last'.data : events[e].status = "approved" \/ entitled(e)]_vars

\* An event manager who did not create the pending event was refused it
C11_Witness ==
    /\ last.op = "get_event"
    /\ last.code = 403
    /\ last.caller \in DOMAIN users
    /\ users[last.caller].role = "event manager"
    /\ last.event \in DOMAIN events
    /\ events[last.event].status = "pending"
    /\ events[last.event].creator_id # last.caller

\* C12: create_camp refuses no authenticated user for their role, and a step
\* that creates a camp commits with it the membership of its creator, approved
\* and manager, so that no state holds a newly created camp without it.
C12_CreatorBecomesApprovedManager ==
    [][last'.op = "create_camp" =>
          LET cu == last'.caller IN
          /\ Authenticated => last'.code \notin {302, 401, 403, 404} \/ last'.flash = "success"
          /\ camps' # camps =>
                 \E c \in DOMAIN camps' \ DOMAIN camps :
                     /\ DOMAIN camps' = DOMAIN camps \cup {c}
                     /\ camps'[c].creator_id = cu
                     /\ camp_members'[<<c, cu>>] = <<[status |-> "approved", role |-> "manager"]>>
          /\ camps' # camps <=> (/\ last'.code = IF last'.via = "api" THEN 201 ELSE 302
                                 /\ last'.via = "web" => last'.flash = "success")]_vars

\* A plain member has created a camp and is its approved manager
C12_Witness ==
    /\ last.op = "create_camp"
    /\ last.caller \in DOMAIN users
    /\ users[last.caller].role = "member"
    /\ \E c \in DOMAIN camps :
           /\ camps[c].creator_id = last.caller
           /\ camp_members[<<c, last.caller>>] = <<[status |-> "approved", role |-> "manager"]>>

C14_OnlyGlobalAdminChangesOthersRoles ==
    /\ [](\A u \in DOMAIN users : users[u].role \in UserRole)
    /\ [][LET cu == last'.caller  u == last'.user
              global_admin == cu \in DOMAIN users /\ users[cu].role = "global admin"
          IN  /\ \A v \in DOMAIN users \cap DOMAIN users' :
                     users'[v].role # users[v].role =>
                         /\ last'.op = "change_user_role" /\ u = v
                         /\ global_admin /\ cu # v
                         /\ users'[v].role \in UserRole
              /\ (/\ last'.op = "change_user_role"
                  /\ Authenticated /\ global_admin /\ u \in DOMAIN users
                  /\ u = cu \/ last'.arg \notin UserRole) =>
                     /\ users' = users
                     /\ IF last'.via = "api" THEN last'.code = IF u = cu THEN 403 ELSE 400
                        ELSE last'.flash # "success"]_vars

\* A global admin's request to change their own role was answered 403
C14_Witness ==
    /\ last.op = "change_user_role"
    /\ last.caller = last.user
    /\ last.code = 403
    /\ last.arg \in UserRole
    /\ last.caller \in DOMAIN users
    /\ users[last.caller].role = "global admin"
    /\ \E u \in DOMAIN users : users[u].role = "site admin"

\* Position of a role in the order global admin, site admin, event manager, camp
\* manager, member
Rank(role) ==
    CASE role = "global admin" -> 1
      [] role = "site admin" -> 2
      [] role = "event manager" -> 3
      [] role = "camp manager" -> 4
      [] role = "member" -> 5
      [] OTHER -> 6

\* C15: is_active goes from true to false only in a suspend_user request of a
\* site admin or global admin for another user whose role is strictly lower than
\* the caller's.  For such a caller and an existing target, suspend_user answers
\* 403 when the target is the caller or has an equal or higher role, and 400
\* when the target may be suspended but is suspended already; reactivate_user
\* answers 400 when the target is active; all these requests leave the users
\* as they were.
C15_SuspensionFollowsTheHierarchy ==
    [][LET cu == last'.caller  u == last'.user
           admin == SiteAdminOrHigher(cu)
           below == Rank(users[u].role) > Rank(users[cu].role)
       IN  /\ \A v \in DOMAIN users \cap DOMAIN users' :
                  (users[v].is_active /\ ~users'[v].is_active) =>
                      /\ last'.op = "suspend_user" /\ u = v
                      /\ admin /\ cu # v
                      /\ Rank(users[v].role) > Rank(users[cu].role)
           /\ (last'.op = "suspend_user" /\ admin /\ u \in DOMAIN users) =>
                  /\ (u = cu \/ ~below) => (last'.code = 403 /\ users' = users)
                  /\ (u # cu /\ below /\ ~users[u].is_active) =>
                         (last'.code = 400 /\ users' = users)
                  /\ (u # cu /\ below /\ users[u].is_active) =>
                         (last'.code = 200 /\ ~users'[u].is_active)
           /\ (/\ last'.op = "reactivate_user" /\ admin /\ u \in DOMAIN users
               /\ users[u].is_active) =>
                  (last'.code = 400 /\ users' = users)]_vars

\* A site admin's request to suspend an active global admin was answered 403
C15_Witness ==
    /\ last.op = "suspend_user"
    /\ last.code = 403
    /\ last.caller \in DOMAIN users
    /\ last.user \in DOMAIN users
    /\ users[last.caller].role = "site admin"
    /\ users[last.user].role = "global admin"
    /\ users[last.user].is_active
    /\ \E v \in DOMAIN users : ~users[v].is_active

\* C16: for two of the five roles, User.has_role_or_higher and the API's
\* has_role_or_higher both answer true exactly when the user's role stands at the
\* same or an earlier position than the required one in the order global admin,
\* site admin, event manager, camp manager, member; both answer false when either
\* value is none of the five roles; and on the five roles the two functions agree
\* and are reflexive and transitive.
C16_RoleOrderIsTheHierarchy ==
    /\ last.op \in {"User.has_role_or_higher", "has_role_or_higher"} =>
           LET u == last.arg[1]  r == last.arg[2]
           IN  last.data = {IF u \in UserRole /\ r \in UserRole
                            THEN Rank(u) <= Rank(r) ELSE FALSE}
    /\ \A a \in UserRole, b \in UserRole :
           /\ User_has_role_or_higher(a, b) = has_role_or_higher(a, b)
           /\ User_has_role_or_higher(a, a) /\ has_role_or_higher(a, a)
           /\ \A c \in UserRole :
                  /\ (User_has_role_or_higher(a, b) /\ User_has_role_or_higher(b, c))
                         => User_has_role_or_higher(a, c)
                  /\ (has_role_or_higher(a, b) /\ has_role_or_higher(b, c))
                         => has_role_or_higher(a, c)

\* The API's helper was asked whether a site admin is an event manager or higher
\* and said yes
C16_Witness ==
    /\ last.op = "has_role_or_higher"
    /\ last.arg = <<"site admin", "event manager">>
    /\ last.data = {TRUE}

\* C17: a login with email and password succeeds only when an account with the
\* (lower-cased) address exists, its stored password hash is the hash of the
\* supplied password, and its email_verified is true; so an account without a
\* password hash never passes, and an account registered with a password does not
\* pass while its address is unverified.
C17_PasswordLoginNeedsHashAndVerifiedEmail ==
    [][(/\ last'.op = "login"
        /\ \/ last'.code = 200 /\ last'.via = "api"
           \/ last'.code = 302 \/ last'.flash = "success"
           \/ last'.user # NoId) =>
           \E u \in DOMAIN users :
               /\ users[u].email = lower(last'.arg.email)
               /\ users[u].password_hash # NoPassword
               /\ users[u].password_hash = generate_password_hash(last'.arg.password)
               /\ users[u].email_verified
               /\ last'.user \in {u, NoId}]_vars

\* A member with a password and a verified address has logged in through the
\* API, and an account without a password exists as well
C17_Witness ==
    /\ last.op = "login"
    /\ last.via = "api"
    /\ last.code = 200
    /\ last.user \in DOMAIN users
    /\ users[last.user].role = "member"
    /\ users[last.user].password_hash # NoPassword
    /\ \E v \in DOMAIN users : users[v].password_hash = NoPassword

\* C18: no two accounts have the same email address in any reachable state, after
\* any sequence of register, create_user, OAuth sign-in, email change requests
\* and verifications; a verify_email_change whose new address has become another
\* account's since the request changes no account and does not succeed.
C18_EmailAddressesAreUnique ==
    /\ [](\A u \in DOMAIN users, v \in DOMAIN users :
              users[u].email = users[v].email => u = v)
    /\ [][LET u == last'.user
          IN  (/\ last'.op = "verify_email_change"
               /\ last'.arg
               /\ u \in DOMAIN users
               /\ users[u].email_change_new_email # ""
               /\ \E v \in DOMAIN users \ {u} :
                      users[v].email = users[u].email_change_new_email) =>
                  /\ users' = users
                  /\ last'.code >= 400]_vars

\* The link of an email change was followed in time after another account had
\* taken the new address, and the request failed
C18_Witness ==
    /\ last.op = "verify_email_change"
    /\ last.arg
    /\ last.code = 500
    /\ last.user \in DOMAIN users
    /\ \E v \in DOMAIN users \ {last.user} :
           users[v].email = users[last.user].email_change_new_email

\* C19: every (provider_name, provider_user_id) identity is linked to at most one
\* user in every reachable state.  A call of link_or_create_user for an identity
\* that is linked returns the user it is linked to and creates no user and no
\* oauth_providers row.  For an identity that is not linked, the call links it to
\* the user with the same address if there is one, setting that user's
\* email_verified, and otherwise creates a user with the address and links the
\* identity to the new user.
C19_OAuthIdentityHasOneUser ==
    /\ [](\A o1 \in oauth_providers, o2 \in oauth_providers :
              (/\ o1.provider_name = o2.provider_name
               /\ o1.provider_user_id = o2.provider_user_id) => o1.user_id = o2.user_id)
    /\ [][(/\ last'.op = "oauth_callback"
           /\ inflight' = inflight
           /\ last'.arg.provider \in {"google", "microsoft"}
           /\ last'.arg.token
           /\ last'.arg.email # "" /\ last'.arg.sub # "") =>
              LET a == last'.arg
                  linked == {o \in oauth_providers : /\ o.provider_name = a.provider
                                                     /\ o.provider_user_id = a.sub}
                  same == {u \in DOMAIN users : users[u].email = a.email}
                  row(u) == [provider_name |-> a.provider, provider_user_id |-> a.sub,
                             user_id |-> u]
              IN  IF linked # {}
                  THEN /\ \E o \in linked : last'.user = o.user_id
                       /\ users' = users
                       /\ oauth_providers' = oauth_providers
                  ELSE IF same # {}
                  THEN /\ last'.user \in same
                       /\ users' = [users EXCEPT ![last'.user].email_verified = TRUE]
                       /\ oauth_providers' = oauth_providers \cup {row(last'.user)}
                  ELSE /\ last'.user \notin DOMAIN users
                       /\ DOMAIN users' = DOMAIN users \cup {last'.user}
                       /\ \A u \in DOMAIN users : users'[u] = users[u]
                       /\ users'[last'.user].email = a.email
                       /\ oauth_providers' = oauth_providers \cup {row(last'.user)}]_vars

\* Of two interleaved sign-ins with one new identity and two addresses the second
\* to commit was refused: the identity is linked to the first one's user only
C19_Witness ==
    /\ last.op = "oauth_callback"
    /\ last.arg.token
    /\ last.user = NoId
    /\ last.arg.email # "" /\ last.arg.sub # ""
    /\ last.arg.provider = "google"
    /\ \E o \in oauth_providers :
           /\ o.provider_name = last.arg.provider
           /\ o.provider_user_id = last.arg.sub
           /\ users[o.user_id].email # last.arg.email

\* C20: an event is created with the status pending.  A request other than
\* change_event_status changes an event's status only from pending to approved,
\* from pending to rejected, or from approved to cancelled, so it changes no
\* rejected and no cancelled event; change_event_status changes a status only for
\* a site admin or higher and only to one of the four statuses.  cancel_event
\* succeeds only for an approved event and a caller who is its creator or a site
\* admin or higher, then the event is cancelled, and otherwise it leaves the
\* events as they were.
C20_EventStatusFollowsTheWorkflow ==
    [][LET cu == last'.caller
           override == last'.op = "change_event_status"
           succeeded == IF last'.via = "api" THEN last'.code = 200
                        ELSE last'.code = 302 /\ last'.flash = "warning"
       IN  /\ \A e \in DOMAIN events' \ DOMAIN events : events'[e].status = "pending"
           /\ \A e \in DOMAIN events :
                  /\ e \in DOMAIN events'
                  /\ events'[e].status # events[e].status =>
                         /\ last'.event = e
                         /\ IF override
                            THEN SiteAdminOrHigher(cu) /\ events'[e].status \in EventStatus
                            ELSE \/ /\ events[e].status = "pending"
                                    /\ events'[e].status \in {"approved", "rejected"}
                                    /\ last'.op \in {"approve_event", "reject_event"}
                                 \/ /\ events[e].status = "approved"
                                    /\ events'[e].status = "cancelled"
                                    /\ last'.op = "cancel_event"
           /\ last'.op = "cancel_event" =>
                  LET e == last'.event
                      allowed == /\ e \in DOMAIN events /\ cu \in DOMAIN users
                                 /\ events[e].status = "approved"
                                 /\ EventCreator(cu, e) \/ SiteAdminOrHigher(cu)
                  IN  /\ succeeded => (allowed /\ events'[e].status = "cancelled")
                      /\ ~allowed => (events' = events /\ ~succeeded)
                      /\ (allowed /\ Authenticated) => succeeded]_vars

\* An event manager who is no site admin has cancelled their own approved event
C20_Witness ==
    /\ last.op = "cancel_event"
    /\ last.code = 200
    /\ last.event \in DOMAIN events
    /\ events[last.event].status = "cancelled"
    /\ events[last.event].creator_id = last.caller
    /\ last.caller \in DOMAIN users
    /\ users[last.caller].role = "event manager"

\* C21: the status of an association changes only from pending to approved in
\* approve_camp, from pending to rejected in reject_camp, from approved to
\* rejected in a revoke_association of a site admin or higher, and from rejected
\* to pending in a cancel_association_rejection of an event manager or higher; so
\* none goes from approved to pending in one step.  Each of the four operations,
\* applied to an association in another status than the one it starts from,
\* changes nothing and is refused, with 400 when the API handler has admitted
\* the caller.
C21_AssociationStatusFollowsTheWorkflow ==
    [][LET cu == last'.caller  c == last'.camp  e == last'.event  op == last'.op
           Status(t, p) == t[p][1].status
           From == [approve_camp |-> "pending", reject_camp |-> "pending",
                    revoke_association |-> "approved",
                    cancel_association_rejection |-> "rejected"]
           admitted ==
               /\ cu \in DOMAIN users /\ e \in DOMAIN events /\ c \in DOMAIN camps
               /\ CASE op = "revoke_association" -> SiteAdminOrHigher(cu)
                    [] op = "cancel_association_rejection" -> EventManagerOrHigher(cu)
                    [] OTHER -> EventCreator(cu, e) \/ EventManagerOrHigher(cu)
       IN  /\ \A p \in CampIds \X EventIds :
                  (/\ associations[p] # <<>> /\ associations'[p] # <<>>
                   /\ Status(associations', p) # Status(associations, p)) =>
                      /\ p = <<c, e>>
                      /\ <<Status(associations, p), Status(associations', p)>> # <<"approved", "pending">>
                      /\ \/ /\ op = "approve_camp"
                            /\ Status(associations, p) = "pending"
                            /\ Status(associations', p) = "approved"
                         \/ /\ op = "reject_camp"
                            /\ Status(associations, p) = "pending"
                            /\ Status(associations', p) = "rejected"
                         \/ /\ op = "revoke_association"
                            /\ Status(associations, p) = "approved"
                            /\ Status(associations', p) = "rejected"
                            /\ SiteAdminOrHigher(cu)
                         \/ /\ op = "cancel_association_rejection"
                            /\ Status(associations, p) = "rejected"
                            /\ Status(associations', p) = "pending"
                            /\ EventManagerOrHigher(cu)
           /\ (/\ op \in DOMAIN From
               /\ c \in CampIds /\ e \in EventIds
               /\ associations[<<c, e>>] # <<>>
               /\ Status(associations, <<c, e>>) # From[op]) =>
                  /\ associations' = associations
                  /\ Refused
                  /\ (last'.via = "api" /\ admitted) => last'.code = 400]_vars

\* An event manager has reopened a rejected association, which is pending again
C21_Witness ==
    /\ last.op = "cancel_association_rejection"
    /\ last.code = 200
    /\ last.caller \in DOMAIN users
    /\ users[last.caller].role = "event manager"
    /\ last.camp \in CampIds /\ last.event \in EventIds
    /\ associations[<<last.camp, last.event>>] # <<>>
    /\ associations[<<last.camp, last.event>>][1].status = "pending"

=============================================================================
